---------------------------- MODULE Spec2Model ----------------------------
(***************************************************************************)
(* A model of the numerical glue code of the SimpleITK registration        *)
(* notebooks:                                                              *)
(*   - registration_errors, the paired-point error estimator (called from  *)
(*     67_Registration_Semiautomatic_Homework and 68_Registration_Errors), *)
(*   - the FLE/FRE/TRE experiments of 68_Registration_Errors,              *)
(*   - the least-squares sphere fit of the spherical-marker notebook,      *)
(*   - the orientation exploration of 63_Registration_Initialization       *)
(*     (sequential MetricEvaluate loop and ThreadPool version).            *)
(*                                                                         *)
(* Coordinates are integers (a lattice of physical points).  A distance is *)
(* held with a resolution of one lattice unit: Norm rounds the square root *)
(* down, so it is exact whenever the squared length is a perfect square,   *)
(* zero exactly for the zero vector and monotone in the squared length.    *)
(* Means and standard deviations are held as fractions [num, den].         *)
(***************************************************************************)
EXTENDS Integers, Sequences, FiniteSets, TLC

VARIABLES
    \* ---- registration_errors call (67: cell "TRE prior to registration") ----
    re_pc,              \* "ready" | "returned" | "raised"
    re_tx,              \* the transform argument
    re_source,          \* reference_fixed_point_list argument
    re_target,          \* reference_moving_point_list argument
    re_result,          \* the call's outcome
    \* ---- 68_Registration_Errors: the four experiments ----
    ex_pc,                      \* <<experiment, stage>>
    ideal_fixed_fiducials, ideal_fixed_targets,
    ideal_moving_fiducials, ideal_moving_targets,
    outlier_fiducial, bias_vector,
    fixed_fiducials, fixed_targets, moving_fiducials, moving_targets,
    fixed_fiducials_flat, moving_fiducials_flat,
    transform, FLE_values, FRE_information, TRE_information,
    est_args,                   \* history: the lists last given to the estimator
    err_args,                   \* history: the arguments of the last two
                                \* registration_errors calls (FRE, TRE)
    \* ---- sphere fit (edge-based localisation of a spherical marker) ----
    sf_pc,                      \* "start" | "fill" | "solve" | "report" | "done"
    physical_points,            \* the edge points, in scan order
    A, b,                       \* the linear system, row by row
    row,                        \* rows filled so far
    res,                        \* the least-squares solution [c_x, c_y, c_z, k]
    sf_printed,                 \* what the cell printed: location and radius
    \* ---- 63_Registration_Initialization: orientation exploration ----
    ini_pc,                     \* the cell being run and how it ended
    fixed_image, moving_image,  \* the images (read only)
    metric_of,                  \* the similarity metric of each orientation
    heap,                       \* the transform objects, by reference
    registration_method,        \* reference of the transform it evaluates
    next_orientation,           \* loop position in all_orientations
    best_orientation, best_similarity_value,
    all_metric_values,
    task_pc,                    \* evaluate_metric call of each list entry
    current_transform,          \* its local current_transform (a reference)
    task_res,                   \* its local res
    tx_before,                  \* history: initial_transform when p.map began
    finish_order,               \* history: the calls in the order they returned
    \* ---- 63_Registration_Initialization: exhaustive optimizer ----
    eo_pc,                      \* <<cell, stage>>
    cost_landscape,             \* the depth of each well of the similarity metric
    numberOfSteps,              \* SetOptimizerAsExhaustive(numberOfSteps=...)
    optimizer_scales,           \* SetOptimizerScales(...), in halves
    observers,                  \* the events a command was added for
    initial_transform,          \* its parameters [angle_x, angle_y, angle_z, t_x, t_y, t_z]
    initial_parameters,         \* optimizer: the centre of the grid
    iteration,                  \* optimizer: grid points evaluated so far
    executions,                 \* Execute calls of the cell's registration_method
    minimum_value,              \* optimizer: least metric value so far
    minimum_position,           \* optimizer: where it was found
    list_defined,               \* whether the global metricvalue_parameters_list exists
    metricvalue_parameters_list,
    k_most_promising,
    final_results,              \* (final_transform, metric value) of each refinement
    final_transform,
    registration_starts,        \* history: the parameters each multires_registration
                                \* call started from
    \* ---- R/61_Registration_Introduction_Continued ----
    intro_pc,                   \* the cell to run next
    tx_ref,                     \* the object each transform variable refers to
    tx_store,                   \* the transform objects
    method_initial,             \* registration_method: the transform it optimizes
    method_moving_initial,      \* registration_method: the moving initial transform
    alignment,                  \* history: what CenteredTransformInitializer returned
    optimizer_result,           \* history: the parameters the last Execute found
    \* ---- 67_Registration_Semiautomatic_Homework, the rotate block ----
    hw_pc,                      \* the statement to run next
    rotate,
    mr_file,                    \* training_001_mr_T1.mha as read
    ground_truth_file,          \* the moving fiducials of ct_T1.standard as loaded
    hw_moving_image,            \* the notebook's moving_image
    moving_fiducial_points,
    rotation_center,            \* in half units
    transform_moving,
    fiducial_index              \* fiducials the for loop has replaced

varsErr == <<re_pc, re_tx, re_source, re_target, re_result>>

varsIdeal == <<ideal_fixed_fiducials, ideal_fixed_targets,
               ideal_moving_fiducials, ideal_moving_targets,
               outlier_fiducial, bias_vector>>

varsExp == <<ex_pc, varsIdeal,
             fixed_fiducials, fixed_targets, moving_fiducials, moving_targets,
             fixed_fiducials_flat, moving_fiducials_flat,
             transform, FLE_values, FRE_information, TRE_information,
             est_args, err_args>>

varsSphere == <<sf_pc, physical_points, A, b, row, res, sf_printed>>

varsIni == <<ini_pc, fixed_image, moving_image, metric_of, heap,
             registration_method, next_orientation, best_orientation,
             best_similarity_value, all_metric_values, task_pc,
             current_transform, task_res, tx_before, finish_order>>

varsOpt == <<eo_pc, cost_landscape, numberOfSteps, optimizer_scales, observers,
             initial_transform, initial_parameters, iteration, executions,
             minimum_value, minimum_position, list_defined,
             metricvalue_parameters_list, k_most_promising, final_results,
             final_transform, registration_starts>>

varsIntro == <<intro_pc, tx_ref, tx_store, method_initial,
               method_moving_initial, alignment, optimizer_result>>

varsHw == <<hw_pc, rotate, mr_file, ground_truth_file, hw_moving_image,
            moving_fiducial_points, rotation_center, transform_moving,
            fiducial_index>>

\* what each notebook leaves alone: the variables of the others
restErr == <<varsExp, varsSphere, varsIni, varsOpt, varsIntro, varsHw>>
restExp == <<varsErr, varsSphere, varsIni, varsOpt, varsIntro, varsHw>>
restSphere == <<varsErr, varsExp, varsIni, varsOpt, varsIntro, varsHw>>
restIni == <<varsErr, varsExp, varsSphere, varsOpt, varsIntro, varsHw>>
restOpt == <<varsErr, varsExp, varsSphere, varsIni, varsIntro, varsHw>>
restIntro == <<varsErr, varsExp, varsSphere, varsIni, varsOpt, varsHw>>
restHw == <<varsErr, varsExp, varsSphere, varsIni, varsOpt, varsIntro>>

-----------------------------------------------------------------------------
(* Bounds of the model.                                                    *)

\* longest point list handed to registration_errors
MaxPoints == 3

\* most fiducial pairs of an experiment of 68_Registration_Errors
MaxFiducials == 5

\* largest translation component the transform estimator considers
MaxShift == 4

\* most edge points handed to the sphere fit
MaxEdgePoints == 5

\* largest centre coordinate and largest squared radius the least-squares
\* solver's lattice of solutions holds
MaxCentre == 1
MaxRadiusSq == 4

\* the similarity metric takes the values 1..MaxMetric
MaxMetric == 2

\* the wells of the cost landscape are 0..MaxDepth deep
MaxDepth == 2

\* most consecutive Execute calls of one registration_method
MaxExecutions == 2

\* most moving fiducial points loaded by the homework notebook
MaxLandmarks == 2

-----------------------------------------------------------------------------
(* Vectors, distances, fractions.                                          *)

Range(s) == {s[i] : i \in DOMAIN s}

RECURSIVE SumSeq(_)
SumSeq(s) == IF s = <<>> THEN 0 ELSE Head(s) + SumSeq(Tail(s))

SeqMin(s) == CHOOSE m \in Range(s) : \A x \in Range(s) : m <= x
SeqMax(s) == CHOOSE m \in Range(s) : \A x \in Range(s) : m >= x

VAdd(p, q) == [i \in DOMAIN p |-> p[i] + q[i]]
VSub(p, q) == [i \in DOMAIN p |-> p[i] - q[i]]
VScale(a, p) == [i \in DOMAIN p |-> a * p[i]]
Dot(p, q) == SumSeq([i \in DOMAIN p |-> p[i] * q[i]])
NormSq(p) == Dot(p, p)

\* floor of the square root: np.sqrt at the model's resolution
ISqrt(n) == CHOOSE r \in 0..n : r * r <= n /\ (r + 1) * (r + 1) > n

\* linalg.norm
Norm(p) == ISqrt(NormSq(p))

-----------------------------------------------------------------------------
(* Rigid 2D transforms: rotation by rot * 90 degrees about the origin      *)
(* followed by the translation t (sitk.Euler2DTransform, lattice angles).  *)

Rot90(p) == <<-p[2], p[1]>>

RECURSIVE RotK(_, _)
RotK(k, p) == IF k = 0 THEN p ELSE RotK(k - 1, Rot90(p))

\* tx.TransformPoint(p)
TransformPoint(tx, p) == VAdd(RotK(tx.rot, p), tx.t)

\* mutant: the default-constructed transform carries a translation
ShiftedTransform == [rot |-> 0, t |-> <<3, 0>>]

\* a default-constructed transform: sitk.Euler3DTransform()
IdentityTransform == [rot |-> 0, t |-> <<0, 0>>]

-----------------------------------------------------------------------------
(* registration_errors(tx, reference_fixed_point_list,                     *)
(*                     reference_moving_point_list)                        *)
(* The body of registration_utilities.registration_errors is not part of   *)
(* the sources at hand; it is modelled from its specification: a           *)
(* DimensionMismatch error for lists of different length, otherwise        *)
(* (mean, std, min, max, errors) of the index-aligned residual distances.  *)

\* mean of a list as a fraction
Mean(errors) == [num |-> SumSeq(errors), den |-> Len(errors)]

\* np.std: sqrt(mean(e^2) - mean(e)^2) = sqrt(n*sum(e^2) - sum(e)^2) / n
Std(errors) ==
    LET n == Len(errors)
        s1 == SumSeq(errors)
        s2 == SumSeq([i \in DOMAIN errors |-> errors[i] * errors[i]])
    IN  [num |-> ISqrt(n * s2 - s1 * s1), den |-> n]

\* mutant: pairs every source point with the first target point
ResidualErrorsFirstTarget(tx, source_points, target_points) ==
    [i \in 1..Len(source_points) |->
        Norm(VSub(TransformPoint(tx, source_points[i]), target_points[1]))]

\* the per-point residuals ||T(p_fixed) - p_moving||, index-aligned
ResidualErrors(tx, source_points, target_points) ==
    [i \in 1..Len(source_points) |->
        Norm(VSub(TransformPoint(tx, source_points[i]), target_points[i]))]

\* mutant: accepts lists of different length, truncating to the shorter
LengthsAgreeNever(source_points, target_points) == TRUE

\* the length check of registration_errors
LengthsAgree(source_points, target_points) ==
    Len(source_points) = Len(target_points)

registration_errors(tx, source_points, target_points) ==
    IF ~LengthsAgree(source_points, target_points)
    THEN [error |-> "DimensionMismatch"]
    ELSE LET n == IF Len(source_points) <= Len(target_points)
                  THEN Len(source_points) ELSE Len(target_points)
             errors == ResidualErrors(tx, SubSeq(source_points, 1, n),
                                          SubSeq(target_points, 1, n))
         IN  [error |-> "none",
              tuple |-> <<Mean(errors), Std(errors), SeqMin(errors),
                          SeqMax(errors), errors>>]

-----------------------------------------------------------------------------
(* The call of registration_errors, for every transform and point lists of *)
(* the lattice {0,3} x {0,4}, on which every distance is a whole number    *)
(* (0, 3, 4 or 5).                                                         *)

LatticePoints == {<<x, y>> : x \in {0, 3}, y \in {0, 4}}

\* the 180 degree rotation about the lattice centre (3/2, 2)
HalfTurn == [rot |-> 2, t |-> <<3, 4>>]

ErrTransforms == {IdentityTransform, HalfTurn}

PointLists == UNION {[1..n -> LatticePoints] : n \in 1..MaxPoints}

NoResult == [error |-> "pending"]

InitErr ==
    /\ re_pc = "ready"
    /\ re_tx \in ErrTransforms
    /\ re_source \in PointLists
    /\ re_target \in PointLists
    /\ re_result = NoResult

\* ru.registration_errors(tx, fixed_points, moving_points) returns
CallReturns ==
    /\ re_pc = "ready"
    /\ registration_errors(re_tx, re_source, re_target).error = "none"
    /\ re_result' = registration_errors(re_tx, re_source, re_target)
    /\ re_pc' = "returned"
    /\ UNCHANGED <<re_tx, re_source, re_target, restErr>>

\* ru.registration_errors(tx, fixed_points, moving_points) fails
CallRaises ==
    /\ re_pc = "ready"
    /\ registration_errors(re_tx, re_source, re_target).error # "none"
    /\ re_result' = registration_errors(re_tx, re_source, re_target)
    /\ re_pc' = "raised"
    /\ UNCHANGED <<re_tx, re_source, re_target, restErr>>

NextErr == CallReturns \/ CallRaises

-----------------------------------------------------------------------------
(* 68_Registration_Errors: the experiments "Ideal Input", "Single Outlier",*)
(* "FRE<TRE" (uniform bias) and "FRE>TRE" (alternating bias).              *)

\* [c for p in points for c in p]
RECURSIVE Flatten(_)
Flatten(points) ==
    IF points = <<>> THEN <<>> ELSE Head(points) \o Flatten(Tail(points))

\* the points of a flat coordinate list (x1, y1, ..., xn, yn), as the
\* estimator reads them
Unflatten(flat) ==
    [i \in 1..(Len(flat) \div 2) |-> <<flat[2 * i - 1], flat[2 * i]>>]

\* sum of squared residuals of a candidate transform on paired points
SumSqResiduals(tx, fixed, moving) ==
    SumSeq([i \in 1..Len(fixed) |->
              NormSq(VSub(TransformPoint(tx, fixed[i]), moving[i]))])

\* the rigid transforms of the lattice
RigidTransforms ==
    [rot : 0..3, t : (-MaxShift..MaxShift) \X (-MaxShift..MaxShift)]

\* sitk.LandmarkBasedTransformInitializer(sitk.Euler2DTransform(), fixed_flat,
\* moving_flat): the least-squares rigid transforms of the paired points (the
\* library's estimator, taken over the lattice transforms)
LandmarkBasedTransformInitializer(fixed_flat, moving_flat) ==
    LET fixed == Unflatten(fixed_flat)
        moving == Unflatten(moving_flat)
        costs == {SumSqResiduals(tx, fixed, moving) : tx \in RigidTransforms}
        least == CHOOSE c \in costs : \A d \in costs : c <= d
    IN  {tx \in RigidTransforms : SumSqResiduals(tx, fixed, moving) = least}

\* position of the fiducial replaced by the outlier: moving_fiducials[3]
OutlierIndex == 4

\* mutant: the flat list is not rebuilt after the outlier is set
StaleFlat(points, old_flat) == old_flat

\* moving_fiducials_flat = [c for p in moving_fiducials for c in p], rebuilt
\* before each estimation
Reflatten(points, old_flat) == Flatten(points)

\* mutant: pol is never negated
KeepPol(pol) == pol

\* pol *= -1.0
NextPol(pol) == -pol

\* the value of pol when the loop reaches the i-th fiducial
RECURSIVE PolAt(_)
PolAt(i) == IF i = 1 THEN 1 ELSE NextPol(PolAt(i - 1))

\* for fiducial in moving_fiducials: fiducial += bias_vector * pol; pol *= -1.0
AddAlternatingBias(points, bias) ==
    [i \in DOMAIN points |-> VAdd(points[i], VScale(PolAt(i), bias))]

\* mutant: the bias reaches only the first fiducial
AddBiasToFirst(points, bias) ==
    [i \in DOMAIN points |-> IF i = 1 THEN VAdd(points[i], bias) ELSE points[i]]

\* for fiducial in moving_fiducials: fiducial += bias_vector
AddUniformBias(points, bias) ==
    [i \in DOMAIN points |-> VAdd(points[i], bias)]

\* the fixed fiducial and target positions of the data cell, on the lattice
FiducialAt(i) == <<i % 4, (i \div 2) % 3>>
FixedTargets == <<<<1, 1>>, <<2, 2>>>>

\* the rigid motions relating the ideal fixed and moving points
TrueTransforms == [rot : 0..3, t : {<<0, 0>>, <<2, 1>>}]

\* bias_vector = [4.5, 4.5]: equal, non-zero components
BiasVectors == {<<1, 1>>, <<2, 2>>}

\* localisation error already present in the ideal moving data
DataNoise == {<<0, 0>>, <<1, 0>>}

Pending == [error |-> "pending"]

InitExp ==
    /\ ex_pc = <<"ideal", "start">>
    /\ \E n \in OutlierIndex..MaxFiducials, T \in TrueTransforms,
          noise \in DataNoise, shift \in {<<2, 2>>} :
          /\ ideal_fixed_fiducials = [i \in 1..n |-> FiducialAt(i)]
          /\ ideal_fixed_targets = FixedTargets
          /\ ideal_moving_fiducials =
                [i \in 1..n |->
                    IF i = 1 THEN VAdd(TransformPoint(T, FiducialAt(i)), noise)
                    ELSE TransformPoint(T, FiducialAt(i))]
          /\ ideal_moving_targets =
                [i \in 1..Len(FixedTargets) |-> TransformPoint(T, FixedTargets[i])]
          /\ outlier_fiducial =
                VAdd(TransformPoint(T, FiducialAt(OutlierIndex)), shift)
    /\ bias_vector \in BiasVectors
    /\ fixed_fiducials = <<>> /\ fixed_targets = <<>>
    /\ moving_fiducials = <<>> /\ moving_targets = <<>>
    /\ fixed_fiducials_flat = <<>> /\ moving_fiducials_flat = <<>>
    /\ transform = IdentityTransform
    /\ FLE_values = <<>>
    /\ FRE_information = Pending /\ TRE_information = Pending
    /\ est_args = <<>>
    /\ err_args = <<>>

\* cell "Registration with perfect data": the deep copies and the flat lists
CopyIdeal ==
    /\ ex_pc = <<"ideal", "start">>
    /\ fixed_fiducials' = ideal_fixed_fiducials
    /\ fixed_targets' = ideal_fixed_targets
    /\ moving_fiducials' = ideal_moving_fiducials
    /\ moving_targets' = ideal_moving_targets
    /\ fixed_fiducials_flat' = Flatten(fixed_fiducials')
    /\ moving_fiducials_flat' = Flatten(moving_fiducials')
    /\ FLE_values' = [i \in DOMAIN ideal_moving_fiducials |-> 0]
    /\ ex_pc' = <<"ideal", "prepared">>
    /\ UNCHANGED <<restExp, varsIdeal, transform, FRE_information, TRE_information,
                   est_args, err_args>>

\* "Change fourth fiducial to an outlier and register"
SetOutlier ==
    /\ ex_pc = <<"ideal", "reported">>
    /\ FLE_values' = [FLE_values EXCEPT ![OutlierIndex] =
            Norm(VSub(outlier_fiducial, moving_fiducials[OutlierIndex]))]
    /\ moving_fiducials' =
            [moving_fiducials EXCEPT ![OutlierIndex] = outlier_fiducial]
    /\ moving_fiducials_flat' =
            Reflatten(moving_fiducials', moving_fiducials_flat)
    /\ ex_pc' = <<"outlier", "prepared">>
    /\ UNCHANGED <<restExp, varsIdeal, fixed_fiducials, fixed_targets, moving_targets,
                   fixed_fiducials_flat, transform, FRE_information,
                   TRE_information, est_args, err_args>>

\* "Registration with same bias added to all points"
PrepareUniformBias ==
    /\ ex_pc = <<"outlier", "reported">>
    /\ fixed_fiducials' = ideal_fixed_fiducials
    /\ fixed_targets' = ideal_fixed_targets
    /\ moving_fiducials' = AddUniformBias(ideal_moving_fiducials, bias_vector)
    /\ FLE_values' = [i \in DOMAIN ideal_moving_fiducials |-> Norm(bias_vector)]
    /\ moving_targets' = ideal_moving_targets
    /\ fixed_fiducials_flat' = Flatten(fixed_fiducials')
    /\ moving_fiducials_flat' = Flatten(moving_fiducials')
    /\ ex_pc' = <<"uniform", "prepared">>
    /\ UNCHANGED <<restExp, varsIdeal, transform, FRE_information, TRE_information,
                   est_args, err_args>>

\* "Registration with bias in one direction for half the fiducials and in the
\* opposite direction for the other half"
PrepareAlternatingBias ==
    /\ ex_pc = <<"uniform", "reported">>
    /\ moving_fiducials' =
            AddAlternatingBias(ideal_moving_fiducials, bias_vector)
    /\ FLE_values' = [i \in DOMAIN ideal_moving_fiducials |-> Norm(bias_vector)]
    /\ moving_targets' = ideal_moving_targets
    /\ fixed_fiducials_flat' = Flatten(fixed_fiducials)
    /\ moving_fiducials_flat' = Flatten(moving_fiducials')
    /\ ex_pc' = <<"alternating", "prepared">>
    /\ UNCHANGED <<restExp, varsIdeal, fixed_fiducials, fixed_targets, transform,
                   FRE_information, TRE_information, est_args, err_args>>

\* transform = sitk.LandmarkBasedTransformInitializer(sitk.Euler2DTransform(),
\*                 fixed_fiducials_flat, moving_fiducials_flat)
Register ==
    /\ ex_pc[2] = "prepared"
    /\ transform' \in LandmarkBasedTransformInitializer(fixed_fiducials_flat,
                                                        moving_fiducials_flat)
    /\ est_args' = <<fixed_fiducials_flat, moving_fiducials_flat>>
    /\ ex_pc' = <<ex_pc[1], "registered">>
    /\ UNCHANGED <<restExp, varsIdeal, fixed_fiducials, fixed_targets, moving_fiducials,
                   moving_targets, fixed_fiducials_flat, moving_fiducials_flat,
                   FLE_values, FRE_information, TRE_information, err_args>>

\* FRE_information = registration_errors(transform, fixed_fiducials,
\*                                       moving_fiducials)
\* TRE_information = registration_errors(transform, fixed_targets,
\*                                       moving_targets); display_errors(...)
ComputeErrors ==
    /\ ex_pc[2] = "registered"
    /\ FRE_information' =
            registration_errors(transform, fixed_fiducials, moving_fiducials)
    /\ TRE_information' =
            registration_errors(transform, fixed_targets, moving_targets)
    /\ err_args' = <<<<transform, fixed_fiducials, moving_fiducials>>,
                     <<transform, fixed_targets, moving_targets>>>>
    /\ ex_pc' = <<ex_pc[1], "reported">>
    /\ UNCHANGED <<restExp, varsIdeal, fixed_fiducials, fixed_targets, moving_fiducials,
                   moving_targets, fixed_fiducials_flat, moving_fiducials_flat,
                   transform, FLE_values, est_args>>

NextExp ==
    \/ CopyIdeal
    \/ SetOutlier
    \/ PrepareUniformBias
    \/ PrepareAlternatingBias
    \/ Register
    \/ ComputeErrors

-----------------------------------------------------------------------------
(* The least-squares sphere fit: rows [-2 p_i, 1], right-hand side         *)
(* -|p_i|^2, solved for [c, k] with k = |c|^2 - r^2.                       *)

\* the members of a finite set of points as a list, in scan order
RECURSIVE SetToSeq(_)
SetToSeq(S) ==
    IF S = {} THEN <<>>
    ELSE LET least == CHOOSE p \in S : \A q \in S :
                          \/ p[3] < q[3]
                          \/ p[3] = q[3] /\ p[2] < q[2]
                          \/ p[3] = q[3] /\ p[2] = q[2] /\ p[1] <= q[1]
         IN  <<least>> \o SetToSeq(S \ {least})

\* mutant: the row holds +2 p_i
SphereRowPlus(point) == <<2 * point[1], 2 * point[2], 2 * point[3], 1>>

\* A[row, 0:3] = -2 * np.array(point), the fourth entry staying 1
SphereRow(point) == <<-2 * point[1], -2 * point[2], -2 * point[3], 1>>

\* b[row] = -linalg.norm(point) ** 2
SphereRhs(point) == -NormSq(point)

\* the lattice the least-squares solutions are looked for in
SolutionLattice ==
    {<<x, y, z, k>> : x \in -MaxCentre..MaxCentre, y \in -MaxCentre..MaxCentre,
                      z \in -MaxCentre..MaxCentre,
                      k \in -MaxRadiusSq..(3 * MaxCentre * MaxCentre)}

\* the matrix-vector product M x, M a list of rows
MatVec(M, x) == [i \in DOMAIN M |-> Dot(M[i], x)]

\* M^T M and M^T y, for a matrix M of four columns given as a list of rows
Gram(M) ==
    [j \in 1..4 |-> [l \in 1..4 |-> SumSeq([i \in DOMAIN M |-> M[i][j] * M[i][l]])]]
TransposeVec(M, y) ==
    [j \in 1..4 |-> SumSeq([i \in DOMAIN M |-> M[i][j] * y[i]])]

\* linalg.lstsq(M, rhs)[0]: the least-squares solution of minimum norm.  x
\* minimises |M x - rhs| exactly when it satisfies the normal equations
\* M^T M x = M^T rhs, and has minimum norm exactly when it is orthogonal to
\* the null space of M (the z with M^T M z = 0).  Only solutions on the
\* lattice are found: inputs whose solution is off the lattice are left out.
Lstsq(M, rhs) ==
    LET G == Gram(M)
        g == TransposeVec(M, rhs)
        normal == {x \in SolutionLattice : MatVec(G, x) = g}
        null == {z \in SolutionLattice : MatVec(G, z) = <<0, 0, 0, 0>>}
    IN  {x \in normal : \A z \in null : Dot(x, z) = 0}

\* the whole system of a point list
SystemMatrix(points) == [i \in DOMAIN points |-> SphereRow(points[i])]
SystemRhs(points) == [i \in DOMAIN points |-> SphereRhs(points[i])]

\* np.sqrt(linalg.norm(res[0:3]) ** 2 - res[3]): nan for a negative argument
SphereRadius(solution) ==
    LET rsq == NormSq(SubSeq(solution, 1, 3)) - solution[4]
    IN  IF rsq < 0 THEN [nan |-> TRUE, value |-> 0]
        ELSE [nan |-> FALSE, value |-> ISqrt(rsq)]

\* edge points around a marker centre: the axis points at distance 1 with
\* the centre itself and two points at distance 2, or the axis points at
\* distance 2 with the centre
AxisPoints(centre, dist) ==
    {VAdd(centre, VScale(dist, d)) :
        d \in {<<1, 0, 0>>, <<-1, 0, 0>>, <<0, 1, 0>>, <<0, -1, 0>>,
               <<0, 0, 1>>, <<0, 0, -1>>}}

EdgePools(centre) ==
    { AxisPoints(centre, 1)
          \cup {centre, VAdd(centre, <<0, 0, 2>>), VAdd(centre, <<0, 0, -2>>)},
      AxisPoints(centre, 2) \cup {centre} }

MarkerCentres == {<<0, 0, 0>>, <<1, 0, 0>>, <<0, 1, 1>>}

EdgePointLists ==
    {SetToSeq(S) :
        S \in {E \in UNION {SUBSET pool :
                              pool \in UNION {EdgePools(centre) :
                                                centre \in MarkerCentres}} :
                  /\ Cardinality(E) \in 1..MaxEdgePoints
                  /\ Lstsq(SystemMatrix(SetToSeq(E)),
                           SystemRhs(SetToSeq(E))) # {}}}

NotPrinted ==
    [location |-> <<>>, radius |-> [nan |-> FALSE, value |-> 0], flagged |-> FALSE]

InitSphere ==
    /\ sf_pc = "start"
    /\ physical_points \in EdgePointLists
    /\ A = <<>> /\ b = <<>>
    /\ row = 0
    /\ res = <<>>
    /\ sf_printed = NotPrinted

\* A = np.ones((len(physical_points), 4)); b = np.zeros(len(physical_points))
SetupSystem ==
    /\ sf_pc = "start"
    /\ A' = [i \in DOMAIN physical_points |-> <<1, 1, 1, 1>>]
    /\ b' = [i \in DOMAIN physical_points |-> 0]
    /\ row' = 0
    /\ sf_pc' = "fill"
    /\ UNCHANGED <<physical_points, res, sf_printed, restSphere>>

\* one iteration of: for row, point in enumerate(physical_points)
FillRow ==
    /\ sf_pc = "fill"
    /\ row < Len(physical_points)
    /\ A' = [A EXCEPT ![row + 1] = SphereRow(physical_points[row + 1])]
    /\ b' = [b EXCEPT ![row + 1] = SphereRhs(physical_points[row + 1])]
    /\ row' = row + 1
    /\ UNCHANGED <<sf_pc, physical_points, res, sf_printed, restSphere>>

\* res, _, _, _ = linalg.lstsq(A, b)
SolveSystem ==
    /\ sf_pc = "fill"
    /\ row = Len(physical_points)
    /\ res' \in Lstsq(A, b)
    /\ sf_pc' = "report"
    /\ UNCHANGED <<physical_points, A, b, row, sf_printed, restSphere>>

\* the two print statements: the location and the radius.  Nothing checks
\* the sign of the squared radius and nothing is raised or flagged.
ReportSphere ==
    /\ sf_pc = "report"
    /\ sf_printed' = [location |-> SubSeq(res, 1, 3),
                      radius |-> SphereRadius(res),
                      flagged |-> FALSE]
    /\ sf_pc' = "done"
    /\ UNCHANGED <<physical_points, A, b, row, res, restSphere>>

NextSphere == SetupSystem \/ FillRow \/ SolveSystem \/ ReportSphere

-----------------------------------------------------------------------------
(* 63_Registration_Initialization: the similarity metric is evaluated for  *)
(* the identity and for each entry of all_orientations, first in a loop,   *)
(* then by a ThreadPool.  Angles are counted in half turns (1 = pi).       *)
(* Transform objects live in a heap and are held by reference, so that a   *)
(* copy and an alias differ.                                               *)

\* all_orientations.values(), in insertion order
all_orientations == <<<<0, 0, 1>>, <<0, 1, 0>>, <<0, 1, 1>>>>

\* orientations_list = [(0, 0, 0)] + list(all_orientations.values())
orientations_list == <<<<0, 0, 0>>>> \o all_orientations

Tasks == DOMAIN orientations_list

\* references: the notebook's initial_transform, the current_transform of
\* each evaluate_metric call, the copy made by SetInitialTransform(inPlace=False),
\* the final_transform returned by multires_registration
InitialRef == 0
TaskRef(i) == i
MethodCopyRef == Len(orientations_list) + 1
FinalRef == MethodCopyRef + 1
Refs == 0..FinalRef

Unallocated == [rotation |-> <<0, 0, 0>>, translation |-> <<0, 0, 0>>, live |-> FALSE]

\* mutant: the call works on the caller's transform itself
AliasTransform(source, fresh) == source

\* sitk.Euler3DTransform(tx): a new object holding a copy of tx
CopyTransform(source, fresh) == fresh

\* the heap after ref := Euler3DTransform(source)
HeapAfterCopy(h, source, ref) == [h EXCEPT ![ref] = h[source]]

\* tx.SetRotation(*orientation)
SetRotation(h, ref, orientation) == [h EXCEPT ![ref].rotation = orientation]

\* np.argmin(values): the first index holding the least value
ArgMin(values) ==
    CHOOSE i \in DOMAIN values :
        /\ \A j \in DOMAIN values : values[i] <= values[j]
        /\ \A j \in DOMAIN values : j < i => values[j] > values[i]

\* mutant: the results are collected in the order the calls returned
ResultsAsCompleted(results, order) == [i \in DOMAIN results |-> results[order[i]]]

\* p.map(f, orientations_list): the i-th result is that of the i-th entry,
\* whatever the order in which the calls returned
MapResults(results, order) == [i \in DOMAIN results |-> results[i]]

\* mutant: the loop also replaces the best value by an equal one
KeepsLastMinimum(current, best) == current <= best

\* mutant: the loop keeps the larger value
KeepsLarger(current, best) == current > best

\* if current_similarity_value < best_similarity_value
IsBetter(current, best) == current < best

\* the translations CenteredTransformInitializer may produce
CentredTranslations == {<<0, 0, 0>>, <<1, 2, 0>>}

MetricValues == 1..MaxMetric

InitIni ==
    /\ ini_pc = "seq_start"
    /\ fixed_image = "ct" /\ moving_image = "mr"
    /\ metric_of \in [Range(orientations_list) -> MetricValues]
    /\ \E t \in CentredTranslations :
          heap = [r \in Refs |->
                    IF r = InitialRef
                    THEN [rotation |-> <<0, 0, 0>>, translation |-> t, live |-> TRUE]
                    ELSE Unallocated]
    /\ registration_method = InitialRef
    /\ next_orientation = 1
    /\ best_orientation = <<0, 0, 0>>
    /\ best_similarity_value = 0
    /\ all_metric_values = <<>>
    /\ task_pc = [i \in Tasks |-> "idle"]
    /\ current_transform = [i \in Tasks |-> InitialRef]
    /\ task_res = [i \in Tasks |-> 0]
    /\ tx_before = Unallocated
    /\ finish_order = <<>>

\* registration_method.MetricEvaluate(fixed_image, moving_image) with the
\* transform at ref
MetricEvaluate(h, ref) == metric_of[h[ref].rotation]

\* registration_method.SetInitialTransform(initial_transform, inPlace=False);
\* best_orientation = (0.0, 0.0, 0.0); best_similarity_value = MetricEvaluate(...)
SeqSetup ==
    /\ ini_pc = "seq_start"
    /\ heap' = HeapAfterCopy(heap, InitialRef, MethodCopyRef)
    /\ registration_method' = MethodCopyRef
    /\ best_orientation' = <<0, 0, 0>>
    /\ best_similarity_value' = MetricEvaluate(heap', registration_method')
    /\ next_orientation' = 1
    /\ ini_pc' = "seq_loop"
    /\ UNCHANGED <<fixed_image, moving_image, metric_of, all_metric_values,
                   task_pc, current_transform, task_res, tx_before, finish_order, restIni>>

\* one iteration of: for key, orientation in all_orientations.items()
SeqIterate ==
    /\ ini_pc = "seq_loop"
    /\ next_orientation <= Len(all_orientations)
    /\ LET orientation == all_orientations[next_orientation]
           current_similarity_value == MetricEvaluate(heap', registration_method')
       IN  /\ heap' = SetRotation(heap, InitialRef, orientation)
           /\ registration_method' = InitialRef
           /\ IF IsBetter(current_similarity_value, best_similarity_value)
              THEN /\ best_similarity_value' = current_similarity_value
                   /\ best_orientation' = orientation
              ELSE UNCHANGED <<best_similarity_value, best_orientation>>
    /\ next_orientation' = next_orientation + 1
    /\ UNCHANGED <<ini_pc, fixed_image, moving_image, metric_of,
                   all_metric_values, task_pc, current_transform, task_res,
                   tx_before, finish_order, restIni>>

\* a MetricEvaluate of the loop raises: the cell stops where it is
SeqEvaluateFails ==
    /\ ini_pc = "seq_loop"
    /\ next_orientation <= Len(all_orientations)
    /\ heap' = SetRotation(heap, InitialRef, all_orientations[next_orientation])
    /\ registration_method' = InitialRef
    /\ ini_pc' = "seq_raised"
    /\ UNCHANGED <<fixed_image, moving_image, metric_of, next_orientation,
                   best_orientation, best_similarity_value, all_metric_values,
                   task_pc, current_transform, task_res, tx_before, finish_order, restIni>>

\* p = ThreadPool(len(all_orientations) + 1); p.map(partial(evaluate_metric,
\* tx=initial_transform, ...), orientations_list) hands out the calls
MapStart ==
    /\ ini_pc = "seq_loop"
    /\ next_orientation > Len(all_orientations)
    /\ task_pc' = [i \in Tasks |-> "queued"]
    /\ tx_before' = heap[InitialRef]
    /\ ini_pc' = "par_map"
    /\ UNCHANGED <<fixed_image, moving_image, metric_of, heap,
                   registration_method, next_orientation, best_orientation,
                   best_similarity_value, all_metric_values, current_transform,
                   task_res, finish_order, restIni>>

\* evaluate_metric: registration_method = sitk.ImageRegistrationMethod() ...
\* current_transform = sitk.Euler3DTransform(tx)
TaskCopy(i) ==
    /\ task_pc[i] = "queued"
    /\ LET ref == CopyTransform(InitialRef, TaskRef(i))
       IN  /\ heap' = HeapAfterCopy(heap, InitialRef, ref)
           /\ current_transform' = [current_transform EXCEPT ![i] = ref]
    /\ task_pc' = [task_pc EXCEPT ![i] = "copied"]
    /\ UNCHANGED <<ini_pc, fixed_image, moving_image, metric_of,
                   registration_method, next_orientation, best_orientation,
                   best_similarity_value, all_metric_values, task_res,
                   tx_before, finish_order, restIni>>

\* evaluate_metric: current_transform.SetRotation(*current_rotation)
TaskSetRotation(i) ==
    /\ task_pc[i] = "copied"
    /\ heap' = SetRotation(heap, current_transform[i], orientations_list[i])
    /\ task_pc' = [task_pc EXCEPT ![i] = "rotated"]
    /\ UNCHANGED <<ini_pc, fixed_image, moving_image, metric_of,
                   registration_method, next_orientation, best_orientation,
                   best_similarity_value, all_metric_values, current_transform,
                   task_res, tx_before, finish_order, restIni>>

\* evaluate_metric: registration_method.SetInitialTransform(current_transform);
\* res = registration_method.MetricEvaluate(f_image, m_image); return res
TaskEvaluate(i) ==
    /\ task_pc[i] = "rotated"
    /\ task_res' = [task_res EXCEPT ![i] = MetricEvaluate(heap, current_transform[i])]
    /\ task_pc' = [task_pc EXCEPT ![i] = "returned"]
    /\ finish_order' = Append(finish_order, i)
    /\ UNCHANGED <<ini_pc, fixed_image, moving_image, metric_of, heap,
                   registration_method, next_orientation, best_orientation,
                   best_similarity_value, all_metric_values, current_transform,
                   tx_before, restIni>>

\* evaluate_metric: MetricEvaluate raises; nothing in evaluate_metric
\* catches it
TaskEvaluateFails(i) ==
    /\ task_pc[i] = "rotated"
    /\ task_pc' = [task_pc EXCEPT ![i] = "failed"]
    /\ UNCHANGED <<ini_pc, fixed_image, moving_image, metric_of, heap,
                   registration_method, next_orientation, best_orientation,
                   best_similarity_value, all_metric_values, current_transform,
                   task_res, tx_before, finish_order, restIni>>

\* p.map returns the results in list order;
\* best_orientation = orientations_list[np.argmin(all_metric_values)]
MapReturns ==
    /\ ini_pc = "par_map"
    /\ \A i \in Tasks : task_pc[i] = "returned"
    /\ all_metric_values' = MapResults(task_res, finish_order)
    /\ best_orientation' = orientations_list[ArgMin(all_metric_values')]
    /\ ini_pc' = "par_done"
    /\ UNCHANGED <<fixed_image, moving_image, metric_of, heap,
                   registration_method, next_orientation, best_similarity_value,
                   task_pc, current_transform, task_res, tx_before, finish_order, restIni>>

\* p.map re-raises the exception of a failed call: all_metric_values and
\* best_orientation are not assigned
MapRaises ==
    /\ ini_pc = "par_map"
    /\ \E i \in Tasks : task_pc[i] = "failed"
    /\ ini_pc' = "par_raised"
    /\ UNCHANGED <<fixed_image, moving_image, metric_of, heap,
                   registration_method, next_orientation, best_orientation,
                   best_similarity_value, all_metric_values, task_pc,
                   current_transform, task_res, tx_before, finish_order, restIni>>

\* initial_transform.SetRotation(*best_orientation);
\* final_transform, _ = multires_registration(fixed_image, moving_image,
\* initial_transform): the registration works on a copy (inPlace=False) and
\* returns a new transform
ApplyBestOrientation ==
    /\ ini_pc = "par_done"
    /\ \E t \in CentredTranslations :
          heap' = [SetRotation(heap, InitialRef, best_orientation)
                      EXCEPT ![FinalRef] = [rotation |-> best_orientation,
                                            translation |-> t,
                                            live |-> TRUE]]
    /\ ini_pc' = "registered"
    /\ UNCHANGED <<fixed_image, moving_image, metric_of,
                   registration_method, next_orientation, best_orientation,
                   best_similarity_value, all_metric_values, task_pc,
                   current_transform, task_res, tx_before, finish_order,
                   restIni>>

NextIni ==
    \/ SeqSetup
    \/ SeqIterate
    \/ SeqEvaluateFails
    \/ MapStart
    \/ \E i \in Tasks : TaskCopy(i)
    \/ \E i \in Tasks : TaskSetRotation(i)
    \/ \E i \in Tasks : TaskEvaluate(i)
    \/ \E i \in Tasks : TaskEvaluateFails(i)
    \/ MapReturns
    \/ MapRaises
    \/ ApplyBestOrientation

-----------------------------------------------------------------------------
(* 63_Registration_Initialization: the exhaustive optimizer, run in place  *)
(* and followed by one registration, then run with observers that collect  *)
(* every sample (exploration) and followed by the refinement of the most   *)
(* promising samples (exploitation).  A parameter vector is                *)
(* [angle_x, angle_y, angle_z, t_x, t_y, t_z]; angles are counted in       *)
(* quarter turns, so that half a step of pi is a whole number.             *)

\* stepLength = np.pi
stepLength == 2

\* optimizer scales are held in halves: 1 is 2 halves, 0.5 is 1 half
ScaleDen == 2

\* a full turn
FullTurn == 2 * stepLength

Parameters == 1..6

\* numberOfSteps of the notebook's cells, of the documented example, and
\* two smaller grids
NumberOfStepsChoices ==
    {<<0, 1, 1, 0, 0, 0>>, <<1, 0, 2, 0, 0, 0>>,
     <<0, 1, 0, 0, 0, 0>>, <<0, 0, 0, 0, 0, 0>>}

\* SetOptimizerScales([1, 1, 1, 1, 1, 1]); the documented example has
\* [1, 1, 0.5, 1, 1, 1]
OptimizerScalesOf(steps) ==
    IF steps = <<1, 0, 2, 0, 0, 0>>
    THEN <<2, 2, 1, 2, 2, 2>>
    ELSE <<2, 2, 2, 2, 2, 2>>

Min(x, y) == IF x <= y THEN x ELSE y

\* mutant: the optimizer scales are ignored
StepSizeUnscaled(scales, i) == stepLength

\* the distance between two grid values of parameter i:
\* stepLength * optimizerScales[i]
StepSize(scales, i) == (stepLength * scales[i]) \div ScaleDen

\* the number of grid values of parameter i
Radix(steps, i) == 2 * steps[i] + 1

RECURSIVE RadixProduct(_, _)
\* the number of grid points over the first i parameters
RadixProduct(steps, i) ==
    IF i = 0 THEN 1 ELSE Radix(steps, i) * RadixProduct(steps, i - 1)

\* prod_i (2 * numberOfSteps[i] + 1)
NumberOfGridPoints(steps) == RadixProduct(steps, Len(steps))

\* the optimizer walks the grid like an odometer, the first parameter
\* fastest: the index of parameter i at the t-th evaluation (t from 0)
WalkIndex(steps, t, i) == (t \div RadixProduct(steps, i - 1)) % Radix(steps, i)

\* the position of the t-th evaluation
WalkPosition(centre, steps, scales, t) ==
    [i \in Parameters |->
        centre[i] + (WalkIndex(steps, t, i) - steps[i]) * StepSize(scales, i)]

\* the similarity metric is a landscape of wells over the three angles; it
\* has the period of a full turn in each angle
WellSites == <<<<0, 1, 0>>, <<0, 2, 2>>, <<2, 0, 1>>>>

CostLandscapes == [DOMAIN WellSites -> 0..MaxDepth]

AngleDistance(a, c) ==
    LET d == (a - c) % FullTurn
    IN  IF 2 * d > FullTurn THEN FullTurn - d ELSE d

WellDistance(p, w) ==
    AngleDistance(p[1], w[1]) + AngleDistance(p[2], w[2])
        + AngleDistance(p[3], w[3])

\* registration_method.GetMetricValue() with the transform parameters p
MetricValue(depths, p) ==
    LET through == {depths[w] + WellDistance(p, WellSites[w]) : w \in DOMAIN WellSites}
    IN  CHOOSE v \in through : \A u \in through : v <= u

\* the parameter vectors one optimizer step away: one angle changed by a
\* quarter turn
Neighbours(p) ==
    {[p EXCEPT ![i] = p[i] + d] : i \in 1..3, d \in {-1, 1}}

\* mutant: the optimizer does not move
NoDescent(depths, p) == {p}

RECURSIVE GradientDescent(_, _)
\* SetOptimizerAsGradientDescent: steps of steepest descent until no
\* neighbour is lower; the set holds every end the optimizer can reach
GradientDescent(depths, p) ==
    LET lower == {q \in Neighbours(p) : MetricValue(depths, q) < MetricValue(depths, p)}
        steepest == {q \in lower :
                        \A r \in lower : MetricValue(depths, q) <= MetricValue(depths, r)}
    IN  IF lower = {}
        THEN {p}
        ELSE UNION {GradientDescent(depths, q) : q \in steepest}

\* multires_registration(fixed_image, moving_image, initial_transform): the
\* pairs (final_transform, registration_method.GetMetricValue()) it can
\* return from the parameters start
multires_registration(depths, start) ==
    {<<final, MetricValue(depths, final)>> : final \in GradientDescent(depths, start)}

\* mutant: the registration optimizes its argument in place
ArgumentOptimizedInPlace(start, final) == final

\* multires_registration: registration_method.SetInitialTransform(
\* initial_transform, inPlace=False): the caller's transform after the call
ArgumentAfterRegistration(start, final) == start

\* sitk.CenteredTransformInitializer(fixed_image, moving_image,
\* sitk.Euler3DTransform(), GEOMETRY): no rotation, the translation between
\* the image centres
CenteredTransformInitializer == <<0, 0, 0, 1, 2, 0>>

\* sorted insertion by metric value, after the entries that are not larger
InsertByMetric(sorted, x) ==
    LET pos == Cardinality({i \in DOMAIN sorted : sorted[i][1] <= x[1]})
    IN  SubSeq(sorted, 1, pos) \o <<x>> \o SubSeq(sorted, pos + 1, Len(sorted))

\* mutant: the list is left as collected
LeftUnsorted(list) == list

RECURSIVE SortByMetric(_)
\* metricvalue_parameters_list.sort(key=lambda x: x[0]): stable, ascending
SortByMetric(list) ==
    IF list = <<>>
    THEN <<>>
    ELSE InsertByMetric(SortByMetric(SubSeq(list, 1, Len(list) - 1)),
                        list[Len(list)])

\* mutant: the first refinement result is taken
FirstResult(results) == results[1]

\* min(final_results, key=lambda x: x[1]): the first entry with the least
\* metric value
MinByMetric(results) ==
    results[CHOOSE i \in DOMAIN results :
                /\ \A j \in DOMAIN results : results[i][2] <= results[j][2]
                /\ \A j \in DOMAIN results : j < i => results[j][2] > results[i][2]]

NoTransform == <<>>

\* mutant: the start observer leaves the list as it is
start_observer_keeps(list) == list

\* def start_observer(): global metricvalue_parameters_list;
\* metricvalue_parameters_list = []
start_observer(list) == <<>>

\* def iteration_observer(registration_method):
\* metricvalue_parameters_list.append((GetMetricValue(), GetOptimizerPosition()))
iteration_observer(list, value, position) == Append(list, <<value, position>>)

\* mutant: Execute works on a copy of the initial transform
ResultNotInPlace(initial, best) == initial

\* SetInitialTransform(initial_transform, inPlace=True): when Execute ends
\* the initial transform holds the best parameters found
ResultInPlace(initial, best) == best

InitOpt ==
    /\ eo_pc = <<"exhaustive", "setup">>
    /\ cost_landscape \in CostLandscapes
    /\ numberOfSteps \in NumberOfStepsChoices
    /\ optimizer_scales = OptimizerScalesOf(numberOfSteps)
    /\ observers = {}
    /\ initial_transform = NoTransform
    /\ initial_parameters = NoTransform
    /\ iteration = 0
    /\ executions = 0
    /\ minimum_value = 0
    /\ minimum_position = NoTransform
    /\ list_defined = FALSE
    /\ metricvalue_parameters_list = <<>>
    /\ k_most_promising = 0
    /\ final_results = <<>>
    /\ final_transform = NoTransform
    /\ registration_starts = <<>>

\* initial_transform = sitk.CenteredTransformInitializer(...);
\* registration_method = sitk.ImageRegistrationMethod() ...
\* SetOptimizerAsExhaustive, SetOptimizerScales,
\* SetInitialTransform(initial_transform, inPlace=True)
ExhaustiveSetup ==
    /\ eo_pc = <<"exhaustive", "setup">>
    /\ initial_transform' = CenteredTransformInitializer
    /\ executions' = 0
    /\ observers' = {}
    /\ eo_pc' = <<"exhaustive", "ready">>
    /\ UNCHANGED <<cost_landscape, numberOfSteps, optimizer_scales,
                   initial_parameters, iteration, minimum_value,
                   minimum_position, list_defined, metricvalue_parameters_list,
                   k_most_promising, final_results, final_transform,
                   registration_starts, restOpt>>

\* the exploration cell: def start_observer, def iteration_observer,
\* initial_transform = sitk.CenteredTransformInitializer(...), a new
\* registration_method, AddCommand(sitkIterationEvent, ...),
\* AddCommand(sitkStartEvent, start_observer)
ExploreSetup ==
    /\ eo_pc = <<"explore", "setup">>
    /\ initial_transform' = CenteredTransformInitializer
    /\ executions' = 0
    /\ observers' = {"sitkIterationEvent", "sitkStartEvent"}
    /\ eo_pc' = <<"explore", "ready">>
    /\ UNCHANGED <<cost_landscape, numberOfSteps, optimizer_scales,
                   initial_parameters, iteration, minimum_value,
                   minimum_position, list_defined, metricvalue_parameters_list,
                   k_most_promising, final_results, final_transform,
                   registration_starts, restOpt>>

\* registration_method.Execute(fixed_image, moving_image) begins: the
\* optimizer is centred on the parameters of the initial transform and the
\* start event fires (start_observer: metricvalue_parameters_list = [])
ExecuteStart ==
    /\ eo_pc[2] = "ready"
    /\ initial_parameters' = initial_transform
    /\ iteration' = 0
    /\ executions' = executions + 1
    /\ IF "sitkStartEvent" \in observers
       THEN /\ metricvalue_parameters_list' = start_observer(metricvalue_parameters_list)
            /\ list_defined' = TRUE
       ELSE UNCHANGED <<metricvalue_parameters_list, list_defined>>
    /\ eo_pc' = <<eo_pc[1], "walking">>
    /\ UNCHANGED <<cost_landscape, numberOfSteps, optimizer_scales, observers,
                   initial_transform, minimum_value, minimum_position,
                   k_most_promising, final_results, final_transform,
                   registration_starts, restOpt>>

\* one evaluation of the exhaustive optimizer: the metric at the next grid
\* point, the least value kept, then the iteration event
\* (iteration_observer: append (GetMetricValue(), GetOptimizerPosition()));
\* the append raises NameError when the global list does not exist
ExecuteIterate ==
    /\ eo_pc[2] = "walking"
    /\ iteration < NumberOfGridPoints(numberOfSteps)
    /\ LET position == WalkPosition(initial_parameters, numberOfSteps,
                                    optimizer_scales, iteration)
           value == MetricValue(cost_landscape, position)
       IN  /\ IF iteration = 0 \/ value < minimum_value
              THEN /\ minimum_value' = value
                   /\ minimum_position' = position
              ELSE UNCHANGED <<minimum_value, minimum_position>>
           /\ IF "sitkIterationEvent" \in observers /\ list_defined
              THEN metricvalue_parameters_list' =
                       iteration_observer(metricvalue_parameters_list, value, position)
              ELSE UNCHANGED metricvalue_parameters_list
    /\ eo_pc' = IF "sitkIterationEvent" \in observers /\ ~list_defined
                THEN <<eo_pc[1], "raised">>
                ELSE eo_pc
    /\ iteration' = iteration + 1
    /\ UNCHANGED <<cost_landscape, numberOfSteps, optimizer_scales,
                   observers, initial_transform, initial_parameters,
                   list_defined, k_most_promising, final_results,
                   final_transform, registration_starts, executions, restOpt>>

\* Execute ends: with inPlace=True the initial transform holds the
\* parameters of the least metric value
ExecuteEnd ==
    /\ eo_pc[2] = "walking"
    /\ iteration = NumberOfGridPoints(numberOfSteps)
    /\ initial_transform' = ResultInPlace(initial_transform, minimum_position)
    /\ eo_pc' = <<eo_pc[1], "executed">>
    /\ UNCHANGED <<cost_landscape, numberOfSteps, optimizer_scales, observers,
                   initial_parameters, iteration, minimum_value,
                   minimum_position, list_defined, metricvalue_parameters_list,
                   k_most_promising, final_results, final_transform,
                   registration_starts, executions, restOpt>>

\* final_transform, _ = multires_registration(fixed_image, moving_image,
\* initial_transform) after the in-place exhaustive search
RegisterFromExhaustive ==
    /\ eo_pc = <<"exhaustive", "executed">>
    /\ \E result \in multires_registration(cost_landscape, initial_transform) :
          /\ final_transform' = result[1]
          /\ initial_transform' =
                 ArgumentAfterRegistration(initial_transform, result[1])
    /\ registration_starts' = Append(registration_starts, initial_transform)
    /\ eo_pc' = <<"explore", "setup">>
    /\ UNCHANGED <<cost_landscape, numberOfSteps, optimizer_scales, observers,
                   initial_parameters, iteration,
                   minimum_value, minimum_position, list_defined,
                   metricvalue_parameters_list, k_most_promising,
                   final_results, executions, restOpt>>

\* metricvalue_parameters_list.sort(key=lambda x: x[0]);
\* k_most_promising = min(3, len(metricvalue_parameters_list));
\* final_results = []
SortSamples ==
    /\ eo_pc = <<"explore", "executed">>
    /\ metricvalue_parameters_list' = SortByMetric(metricvalue_parameters_list)
    /\ k_most_promising' = Min(3, Len(metricvalue_parameters_list))
    /\ final_results' = <<>>
    /\ eo_pc' = <<"exploit", "loop">>
    /\ UNCHANGED <<cost_landscape, numberOfSteps, optimizer_scales, observers,
                   initial_transform, initial_parameters, iteration,
                   minimum_value, minimum_position, list_defined,
                   final_transform, registration_starts, executions, restOpt>>

\* one iteration of: for metricvalue, parameters in
\* metricvalue_parameters_list[0:k_most_promising]:
\*     initial_transform.SetParameters(parameters)
\*     final_results.append(multires_registration(...))
RefineNext ==
    /\ eo_pc = <<"exploit", "loop">>
    /\ Len(final_results) < k_most_promising
    /\ LET parameters == metricvalue_parameters_list[Len(final_results) + 1][2]
       IN  /\ \E result \in multires_registration(cost_landscape, parameters) :
                 /\ final_results' = Append(final_results, result)
                 /\ initial_transform' =
                        ArgumentAfterRegistration(parameters, result[1])
           /\ registration_starts' = Append(registration_starts, parameters)
    /\ UNCHANGED <<eo_pc, cost_landscape, numberOfSteps, optimizer_scales,
                   observers, initial_parameters, iteration, minimum_value,
                   minimum_position, list_defined, metricvalue_parameters_list,
                   k_most_promising, final_transform, executions, restOpt>>

\* final_transform, _ = min(final_results, key=lambda x: x[1])
SelectFinal ==
    /\ eo_pc = <<"exploit", "loop">>
    /\ Len(final_results) = k_most_promising
    /\ final_transform' = MinByMetric(final_results)[1]
    /\ eo_pc' = <<"exploit", "done">>
    /\ UNCHANGED <<cost_landscape, numberOfSteps, optimizer_scales, observers,
                   initial_transform, initial_parameters, iteration,
                   minimum_value, minimum_position, list_defined,
                   metricvalue_parameters_list, k_most_promising,
                   final_results, registration_starts, executions, restOpt>>

\* registration_method.Execute(fixed_image, moving_image) is called again
\* on the registration_method of the exploration cell
ExecuteAgain ==
    /\ eo_pc = <<"explore", "executed">>
    /\ executions < MaxExecutions
    /\ eo_pc' = <<"explore", "ready">>
    /\ UNCHANGED <<cost_landscape, numberOfSteps, optimizer_scales, observers,
                   initial_transform, initial_parameters, iteration,
                   minimum_value, minimum_position, list_defined,
                   metricvalue_parameters_list, k_most_promising,
                   final_results, final_transform, registration_starts,
                   executions, restOpt>>

NextOpt ==
    \/ ExhaustiveSetup
    \/ ExecuteStart
    \/ ExecuteIterate
    \/ ExecuteEnd
    \/ RegisterFromExhaustive
    \/ ExploreSetup
    \/ ExecuteAgain
    \/ SortSamples
    \/ RefineNext
    \/ SelectFinal

-----------------------------------------------------------------------------
(* R/61_Registration_Introduction_Continued: the initial alignment and the *)
(* three versions of the final registration.  Transform objects live in a  *)
(* store and the notebook's variables hold references to them.  A          *)
(* transform object has a type and a queue of rigid transforms; a point is *)
(* mapped by the queue from its back to its front.                         *)

\* the notebook's transform variables, each with an object slot of its own
TransformNames ==
    <<"initial_transform", "final_transform_v1", "optimized_transform",
      "final_transform_v11", "final_transform">>

SlotOf(name) == CHOOSE i \in DOMAIN TransformNames : TransformNames[i] = name

NoObject == [type |-> "none", queue |-> <<>>]

\* Euler3DTransform() with the given parameters
EulerTransform(tx) == [type |-> "Euler3DTransform", queue |-> <<tx>>]

\* Transform(t): a generic transform holding a copy of t
GenericTransform(object) == [type |-> "Transform", queue |-> object.queue]

\* composite$AddTransform(t): t goes to the back of the queue
AddTransform(composite, object) ==
    [type |-> "Transform", queue |-> composite.queue \o object.queue]

RECURSIVE ApplyQueue(_, _)
\* a composite maps a point by its transforms in reverse queue order: the
\* transform added last is applied first
ApplyQueue(queue, p) ==
    IF queue = <<>>
    THEN p
    ELSE ApplyQueue(SubSeq(queue, 1, Len(queue) - 1),
                    TransformPoint(queue[Len(queue)], p))

\* transform$TransformPoint(p)
TransformPointOf(object, p) == ApplyQueue(object.queue, p)

\* the translations CenteredTransformInitializer may produce
AlignmentShifts == {<<1, 0>>, <<3, 4>>}

\* the parameters a gradient descent may end with
OptimizedParameters ==
    {[rot |-> r, t |-> t] : r \in {0, 1}, t \in {<<0, 0>>, <<1, 2>>}}

\* mutant: SetInitialTransform(initial_transform) with the default inPlace
InPlaceDefault == TRUE

\* SetInitialTransform(initial_transform, inPlace=FALSE)
V1InPlace == FALSE

\* mutant: the new variable refers to the object it was constructed from
SameObject(source, fresh) == source

\* Euler3DTransform(initial_transform): a new object, a copy of its argument
CopyConstructed(source, fresh) == fresh

\* the object Execute optimizes: the one given, or a copy of it
OptimizedObject(inPlace, given, copy) == IF inPlace THEN given ELSE copy

InitIntro ==
    /\ intro_pc = "alignment"
    /\ tx_ref = [n \in Range(TransformNames) |-> 0]
    /\ tx_store = [r \in DOMAIN TransformNames |-> NoObject]
    /\ method_initial = 0
    /\ method_moving_initial = 0
    /\ alignment = NoObject
    /\ optimizer_result = IdentityTransform

\* initial_transform <- CenteredTransformInitializer(..., Euler3DTransform(),
\* "GEOMETRY")
InitialAlignment ==
    /\ intro_pc = "alignment"
    /\ \E t \in AlignmentShifts :
          LET object == EulerTransform([rot |-> 0, t |-> t])
          IN  /\ tx_store' = [tx_store EXCEPT ![SlotOf("initial_transform")] = object]
              /\ alignment' = object
    /\ tx_ref' = [tx_ref EXCEPT !["initial_transform"] = SlotOf("initial_transform")]
    /\ intro_pc' = "v1"
    /\ UNCHANGED <<method_initial, method_moving_initial, optimizer_result,
                   restIntro>>

\* Version 1: registration_method <- ImageRegistrationMethod() ...
\* registration_method$SetInitialTransform(initial_transform, inPlace=FALSE)
V1Setup ==
    /\ intro_pc = "v1"
    /\ LET given == tx_ref["initial_transform"]
           copy == SlotOf("final_transform_v1")
       IN  /\ method_initial' = OptimizedObject(V1InPlace, given, copy)
           /\ tx_store' = [tx_store EXCEPT ![copy] = GenericTransform(tx_store[given])]
    /\ method_moving_initial' = 0
    /\ intro_pc' = "v1_execute"
    /\ UNCHANGED <<tx_ref, alignment, optimizer_result, restIntro>>

\* final_transform_v1 = registration_method$Execute(...): the optimizer
\* writes its parameters into the transform it was given and returns it
V1Execute ==
    /\ intro_pc = "v1_execute"
    /\ \E found \in OptimizedParameters :
          /\ optimizer_result' = found
          /\ tx_store' = [tx_store EXCEPT ![method_initial].queue = <<found>>]
    /\ tx_ref' = [tx_ref EXCEPT !["final_transform_v1"] = method_initial]
    /\ intro_pc' = "v11"
    /\ UNCHANGED <<method_initial, method_moving_initial, alignment, restIntro>>

\* Version 1.1: optimized_transform <- Euler3DTransform();
\* registration_method$SetMovingInitialTransform(initial_transform);
\* registration_method$SetInitialTransform(optimized_transform)
V11Setup ==
    /\ intro_pc = "v11"
    /\ tx_store' = [tx_store EXCEPT ![SlotOf("optimized_transform")] =
                                        EulerTransform(IdentityTransform)]
    /\ tx_ref' = [tx_ref EXCEPT !["optimized_transform"] = SlotOf("optimized_transform")]
    /\ method_moving_initial' = tx_ref["initial_transform"]
    /\ method_initial' = SlotOf("optimized_transform")
    /\ intro_pc' = "v11_execute"
    /\ UNCHANGED <<alignment, optimizer_result, restIntro>>

\* dev_null <- registration_method$Execute(...): optimized_transform is
\* modified in place, the moving initial transform is not modified
V11Execute ==
    /\ intro_pc = "v11_execute"
    /\ \E found \in OptimizedParameters :
          /\ optimizer_result' = found
          /\ tx_store' = [tx_store EXCEPT ![method_initial].queue = <<found>>]
    /\ intro_pc' = "v11_compose"
    /\ UNCHANGED <<tx_ref, method_initial, method_moving_initial, alignment,
                   restIntro>>

\* final_transform_v11 <- Transform(optimized_transform);
\* dev_null <- final_transform_v11$AddTransform(initial_transform)
V11Compose ==
    /\ intro_pc = "v11_compose"
    /\ tx_store' = [tx_store EXCEPT ![SlotOf("final_transform_v11")] =
                      AddTransform(GenericTransform(tx_store[tx_ref["optimized_transform"]]),
                                   tx_store[tx_ref["initial_transform"]])]
    /\ tx_ref' = [tx_ref EXCEPT !["final_transform_v11"] = SlotOf("final_transform_v11")]
    /\ intro_pc' = "v2"
    /\ UNCHANGED <<method_initial, method_moving_initial, alignment,
                   optimizer_result, restIntro>>

\* Version 2: final_transform <- Euler3DTransform(initial_transform);
\* registration_method$SetInitialTransform(final_transform)
V2Setup ==
    /\ intro_pc = "v2"
    /\ LET object == CopyConstructed(tx_ref["initial_transform"],
                                     SlotOf("final_transform"))
       IN  /\ tx_store' = [tx_store EXCEPT ![object] =
                             [type |-> "Euler3DTransform",
                              queue |-> tx_store[tx_ref["initial_transform"]].queue]]
           /\ tx_ref' = [tx_ref EXCEPT !["final_transform"] = object]
           /\ method_initial' = object
    /\ method_moving_initial' = 0
    /\ intro_pc' = "v2_execute"
    /\ UNCHANGED <<alignment, optimizer_result, restIntro>>

\* dev_null <- registration_method$Execute(...): final_transform is
\* modified in place
V2Execute ==
    /\ intro_pc = "v2_execute"
    /\ \E found \in OptimizedParameters :
          /\ optimizer_result' = found
          /\ tx_store' = [tx_store EXCEPT ![method_initial].queue = <<found>>]
    /\ intro_pc' = "done"
    /\ UNCHANGED <<tx_ref, method_initial, method_moving_initial, alignment,
                   restIntro>>

NextIntro ==
    \/ InitialAlignment
    \/ V1Setup
    \/ V1Execute
    \/ V11Setup
    \/ V11Execute
    \/ V11Compose
    \/ V2Setup
    \/ V2Execute

-----------------------------------------------------------------------------
(* 67_Registration_Semiautomatic_Homework: with rotate set, the moving     *)
(* image is resampled onto its own grid through a rotation about its       *)
(* centre and every moving fiducial point is replaced by its image under   *)
(* the same transform.  An image is a grid of voxels (unit spacing,        *)
(* identity direction) with a value per voxel; the file gives every voxel  *)
(* a value of its own, which stands for the anatomy there.  Angles are     *)
(* counted in quarter turns; the centre of rotation is kept in half units, *)
(* as the centre of an image with an even size lies between two voxels.    *)

\* GetSize() of the images read
ImageSizes == {<<2, 2, 1>>, <<3, 2, 1>>, <<2, 3, 2>>}

\* GetOrigin() of the images read
ImageOrigins == {<<0, 0, 0>>, <<1, -1, 0>>}

\* the voxel indices of an image of this size
Indices(size) ==
    {<<i, j, k>> : i \in 0..(size[1] - 1), j \in 0..(size[2] - 1),
                   k \in 0..(size[3] - 1)}

\* the physical points of the voxels of an image
VoxelPoints(image) == {VAdd(image.origin, idx) : idx \in Indices(image.size)}

\* the value an image is given outside of what it was resampled from
DefaultPixelValue == 0

\* sitk.ReadImage: every voxel holds a value of its own
ReadImage(size, origin) ==
    [size |-> size, origin |-> origin,
     pixels |-> [idx \in Indices(size) |->
                    1 + idx[1] + size[1] * (idx[2] + size[2] * idx[3])]]

\* the value of the image at a physical point
PixelAt(image, point) ==
    LET idx == VSub(point, image.origin)
    IN  IF <<idx[1], idx[2], idx[3]>> \in Indices(image.size)
        THEN image.pixels[<<idx[1], idx[2], idx[3]>>]
        ELSE DefaultPixelValue

\* moving_image.TransformContinuousIndexToPhysicalPoint(
\*     [(index - 1) / 2.0 for index in moving_image.GetSize()]), in half units
ImageCenter(image) ==
    <<2 * image.origin[1] + (image.size[1] - 1),
      2 * image.origin[2] + (image.size[2] - 1),
      2 * image.origin[3] + (image.size[3] - 1)>>

\* sitk.Euler3DTransform(center, 0, 0, angle_z, translation)
Euler3DTransform(center, angle_z, translation) ==
    [center |-> center, angle_z |-> angle_z, translation |-> translation]

NoEuler3DTransform == Euler3DTransform(<<0, 0, 0>>, 0, <<0, 0, 0>>)

\* a rotation about the z axis by k quarter turns
RECURSIVE RotateZ(_, _)
RotateZ(k, v) == IF k = 0 THEN v ELSE RotateZ(k - 1, <<0 - v[2], v[1], v[3]>>)

\* transform.TransformPoint(p) = R (p - center) + center + translation
EulerTransformPoint(tx, p) ==
    LET d == <<2 * p[1] - tx.center[1], 2 * p[2] - tx.center[2],
               2 * p[3] - tx.center[3]>>
        r == RotateZ(tx.angle_z, d)
    IN  <<(r[1] + tx.center[1]) \div 2 + tx.translation[1],
          (r[2] + tx.center[2]) \div 2 + tx.translation[2],
          (r[3] + tx.center[3]) \div 2 + tx.translation[3]>>

\* mutant: a rotation by pi / 2
QuarterTurnAbout(center) == Euler3DTransform(center, 1, <<0, 0, 0>>)

\* sitk.Euler3DTransform(rotation_center, 0, 0, np.pi, (0, 0, 0))
HalfTurnAbout(center) == Euler3DTransform(center, 2, <<0, 0, 0>>)

\* resample.SetReferenceImage(image); resample.SetTransform(tx);
\* resample.Execute(image): the value at each point of the output grid is
\* the value of the input at the transformed point
ResampleExecute(image, tx) ==
    [image EXCEPT !.pixels =
        [idx \in Indices(image.size) |->
            PixelAt(image, EulerTransformPoint(tx, VAdd(image.origin, idx)))]]

\* the fiducial lists load_RIRE_ground_truth may give for this image
FiducialLists(image) ==
    UNION {[1..n -> VoxelPoints(image)] : n \in 1..MaxLandmarks}

\* moving_image = sitk.ReadImage(...); fixed_fiducial_points,
\* moving_fiducial_points = ru.load_RIRE_ground_truth(...); rotate = ...
InitHw ==
    /\ hw_pc = "loaded"
    /\ rotate \in BOOLEAN
    /\ \E size \in ImageSizes, origin \in ImageOrigins :
          mr_file = ReadImage(size, origin)
    /\ ground_truth_file \in FiducialLists(mr_file)
    /\ hw_moving_image = mr_file
    /\ moving_fiducial_points = ground_truth_file
    /\ rotation_center = <<0, 0, 0>>
    /\ transform_moving = NoEuler3DTransform
    /\ fiducial_index = 0

\* if rotate: rotation_center = ...
ComputeRotationCenter ==
    /\ hw_pc = "loaded"
    /\ rotate
    /\ rotation_center' = ImageCenter(hw_moving_image)
    /\ hw_pc' = "center"
    /\ UNCHANGED <<rotate, mr_file, ground_truth_file, hw_moving_image,
                   moving_fiducial_points, transform_moving, fiducial_index,
                   restHw>>

\* rotate is False: the block is skipped
SkipRotation ==
    /\ hw_pc = "loaded"
    /\ ~rotate
    /\ hw_pc' = "done"
    /\ UNCHANGED <<rotate, mr_file, ground_truth_file, hw_moving_image,
                   moving_fiducial_points, rotation_center, transform_moving,
                   fiducial_index, restHw>>

\* transform_moving = sitk.Euler3DTransform(rotation_center, 0, 0, np.pi, (0, 0, 0))
MakeTransformMoving ==
    /\ hw_pc = "center"
    /\ transform_moving' = HalfTurnAbout(rotation_center)
    /\ hw_pc' = "transform"
    /\ UNCHANGED <<rotate, mr_file, ground_truth_file, hw_moving_image,
                   moving_fiducial_points, rotation_center, fiducial_index,
                   restHw>>

\* resample = sitk.ResampleImageFilter() ... moving_image = resample.Execute(moving_image)
ResampleMoving ==
    /\ hw_pc = "transform"
    /\ hw_moving_image' = ResampleExecute(hw_moving_image, transform_moving)
    /\ fiducial_index' = 0
    /\ hw_pc' = "loop"
    /\ UNCHANGED <<rotate, mr_file, ground_truth_file, moving_fiducial_points,
                   rotation_center, transform_moving, restHw>>

\* one iteration of: for i, p in enumerate(moving_fiducial_points):
\*     moving_fiducial_points[i] = transform_moving.TransformPoint(p)
TransformFiducial ==
    /\ hw_pc = "loop"
    /\ fiducial_index < Len(moving_fiducial_points)
    /\ LET i == fiducial_index + 1
           p == moving_fiducial_points[i]
       IN  moving_fiducial_points' =
               [moving_fiducial_points EXCEPT
                   ![i] = EulerTransformPoint(transform_moving, p)]
    /\ fiducial_index' = fiducial_index + 1
    /\ UNCHANGED <<hw_pc, rotate, mr_file, ground_truth_file, hw_moving_image,
                   rotation_center, transform_moving, restHw>>

\* the for loop has gone through the list
RotationDone ==
    /\ hw_pc = "loop"
    /\ fiducial_index = Len(moving_fiducial_points)
    /\ hw_pc' = "done"
    /\ UNCHANGED <<rotate, mr_file, ground_truth_file, hw_moving_image,
                   moving_fiducial_points, rotation_center, transform_moving,
                   fiducial_index, restHw>>

NextHw ==
    \/ ComputeRotationCenter
    \/ SkipRotation
    \/ MakeTransformMoving
    \/ ResampleMoving
    \/ TransformFiducial
    \/ RotationDone

-----------------------------------------------------------------------------
(* Specifications.  The notebooks are independent programs: each           *)
(* specification runs one of them and leaves the variables of the others   *)
(* at rest.                                                                *)

IdleErr ==
    /\ re_pc = "idle"
    /\ re_tx = IdentityTransform
    /\ re_source = <<>> /\ re_target = <<>>
    /\ re_result = NoResult

IdleExp ==
    /\ ex_pc = <<"idle", "idle">>
    /\ ideal_fixed_fiducials = <<>> /\ ideal_fixed_targets = <<>>
    /\ ideal_moving_fiducials = <<>> /\ ideal_moving_targets = <<>>
    /\ outlier_fiducial = <<0, 0>> /\ bias_vector = <<0, 0>>
    /\ fixed_fiducials = <<>> /\ fixed_targets = <<>>
    /\ moving_fiducials = <<>> /\ moving_targets = <<>>
    /\ fixed_fiducials_flat = <<>> /\ moving_fiducials_flat = <<>>
    /\ transform = IdentityTransform
    /\ FLE_values = <<>>
    /\ FRE_information = Pending /\ TRE_information = Pending
    /\ est_args = <<>> /\ err_args = <<>>

IdleSphere ==
    /\ sf_pc = "idle"
    /\ physical_points = <<>>
    /\ A = <<>> /\ b = <<>>
    /\ row = 0
    /\ res = <<>>
    /\ sf_printed = NotPrinted

IdleIni ==
    /\ ini_pc = "idle"
    /\ fixed_image = "ct" /\ moving_image = "mr"
    /\ metric_of = [o \in Range(orientations_list) |-> 1]
    /\ heap = [r \in Refs |-> Unallocated]
    /\ registration_method = InitialRef
    /\ next_orientation = 1
    /\ best_orientation = <<0, 0, 0>>
    /\ best_similarity_value = 0
    /\ all_metric_values = <<>>
    /\ task_pc = [i \in Tasks |-> "idle"]
    /\ current_transform = [i \in Tasks |-> InitialRef]
    /\ task_res = [i \in Tasks |-> 0]
    /\ tx_before = Unallocated
    /\ finish_order = <<>>

IdleOpt ==
    /\ eo_pc = <<"idle", "idle">>
    /\ cost_landscape = [w \in DOMAIN WellSites |-> 0]
    /\ numberOfSteps = <<0, 0, 0, 0, 0, 0>>
    /\ optimizer_scales = OptimizerScalesOf(numberOfSteps)
    /\ observers = {}
    /\ initial_transform = NoTransform
    /\ initial_parameters = NoTransform
    /\ iteration = 0
    /\ executions = 0
    /\ minimum_value = 0
    /\ minimum_position = NoTransform
    /\ list_defined = FALSE
    /\ metricvalue_parameters_list = <<>>
    /\ k_most_promising = 0
    /\ final_results = <<>>
    /\ final_transform = NoTransform
    /\ registration_starts = <<>>

IdleIntro ==
    /\ intro_pc = "idle"
    /\ tx_ref = [n \in Range(TransformNames) |-> 0]
    /\ tx_store = [r \in DOMAIN TransformNames |-> NoObject]
    /\ method_initial = 0
    /\ method_moving_initial = 0
    /\ alignment = NoObject
    /\ optimizer_result = IdentityTransform

IdleHw ==
    /\ hw_pc = "idle"
    /\ rotate = FALSE
    /\ mr_file = ReadImage(<<1, 1, 1>>, <<0, 0, 0>>)
    /\ ground_truth_file = <<>>
    /\ hw_moving_image = mr_file
    /\ moving_fiducial_points = <<>>
    /\ rotation_center = <<0, 0, 0>>
    /\ transform_moving = NoEuler3DTransform
    /\ fiducial_index = 0

vars == <<varsErr, varsExp, varsSphere, varsIni, varsOpt, varsIntro, varsHw>>

\* one call of registration_errors
StartErr == InitErr /\ IdleExp /\ IdleSphere /\ IdleIni /\ IdleOpt /\ IdleIntro
    /\ IdleHw
SpecErr == StartErr /\ [][NextErr]_vars

\* the experiments of 68_Registration_Errors, in cell order
StartExp == InitExp /\ IdleErr /\ IdleSphere /\ IdleIni /\ IdleOpt /\ IdleIntro
    /\ IdleHw
SpecExp == StartExp /\ [][NextExp]_vars

\* the sphere fit of one marker
StartSphere == InitSphere /\ IdleErr /\ IdleExp /\ IdleIni /\ IdleOpt /\ IdleIntro
    /\ IdleHw
SpecSphere == StartSphere /\ [][NextSphere]_vars

\* the orientation exploration of 63_Registration_Initialization
StartIni == InitIni /\ IdleErr /\ IdleExp /\ IdleSphere /\ IdleOpt /\ IdleIntro
    /\ IdleHw
SpecIni == StartIni /\ [][NextIni]_vars

\* the exhaustive optimizer cells, the exploration and the exploitation
StartOpt == InitOpt /\ IdleErr /\ IdleExp /\ IdleSphere /\ IdleIni /\ IdleIntro
    /\ IdleHw
SpecOpt == StartOpt /\ [][NextOpt]_vars

\* the registrations of R/61_Registration_Introduction_Continued
StartIntro == InitIntro /\ IdleErr /\ IdleExp /\ IdleSphere /\ IdleIni /\ IdleOpt
    /\ IdleHw
SpecIntro == StartIntro /\ [][NextIntro]_vars

\* the rotate block of 67_Registration_Semiautomatic_Homework
StartHw == InitHw /\ IdleErr /\ IdleExp /\ IdleSphere /\ IdleIni /\ IdleOpt
    /\ IdleIntro
SpecHw == StartHw /\ [][NextHw]_vars

-----------------------------------------------------------------------------
(* Claims about registration_errors.                                       *)

\* C1: a call with point lists of different length fails with
\* DimensionMismatch and returns no statistics (nothing is computed over a
\* truncated or padded pairing).
C1_MismatchRaises ==
    (re_pc # "ready" /\ Len(re_source) # Len(re_target))
        => /\ re_pc = "raised"
           /\ re_result = [error |-> "DimensionMismatch"]

C1_Witness ==
    /\ re_pc = "raised"
    /\ Len(re_source) # Len(re_target)

\* C2: for equal-length lists of N pairs the call returns the 5-tuple
\* (mean, std, min, max, errors): errors has N entries, errors[i] is the
\* distance between T(source[i]) and target[i], min and max are the least
\* and greatest of these, mean is their sum over N and min <= mean <= max.
C2_TupleOfAlignedResiduals ==
    (re_pc # "ready" /\ Len(re_source) = Len(re_target))
        => /\ re_pc = "returned"
           /\ Len(re_result.tuple) = 5
           /\ LET N == Len(re_source)
                  mean == re_result.tuple[1]
                  min == re_result.tuple[3]
                  max == re_result.tuple[4]
                  errors == re_result.tuple[5]
              IN  /\ Len(errors) = N
                  /\ \A i \in 1..N :
                        /\ errors[i] >= 0
                        /\ errors[i] * errors[i] =
                             NormSq(VSub(TransformPoint(re_tx, re_source[i]),
                                         re_target[i]))
                  /\ \E i \in 1..N : errors[i] = min
                  /\ \E i \in 1..N : errors[i] = max
                  /\ \A i \in 1..N : min <= errors[i] /\ errors[i] <= max
                  /\ mean.den = N
                  /\ mean.num = SumSeq(errors)
                  /\ min * mean.den <= mean.num
                  /\ mean.num <= max * mean.den

C2_Witness ==
    /\ re_pc = "returned"
    /\ Len(re_source) = 3
    /\ re_tx = HalfTurn
    /\ re_result.tuple[3] < re_result.tuple[4]
    /\ re_result.tuple[5][1] # re_result.tuple[5][2]

\* C3: with the identity transform and target points identical to the
\* source points every residual is 0 and mean = std = max = 0.
C3_IdentityOnSamePoints ==
    (re_pc # "ready" /\ re_tx = IdentityTransform /\ re_target = re_source)
        => /\ re_pc = "returned"
           /\ \A i \in DOMAIN re_result.tuple[5] : re_result.tuple[5][i] = 0
           /\ re_result.tuple[1].num = 0
           /\ re_result.tuple[2].num = 0
           /\ re_result.tuple[4] = 0

C3_Witness ==
    /\ re_pc = "returned"
    /\ re_tx = IdentityTransform
    /\ re_target = re_source
    /\ Len(re_source) = 3
    /\ re_source[1] # re_source[2]

-----------------------------------------------------------------------------
(* Claims about the experiments of 68_Registration_Errors.                 *)

\* C4: in every experiment the transform is estimated from the fiducial
\* lists only (no target point reaches the estimator), the FRE is computed
\* on exactly the fiducial points whose flattened coordinates were used for
\* the estimation, and the TRE is computed on the held-out targets.
C4_EstimatedFromFiducialsOnly ==
    /\ ex_pc[2] \in {"registered", "reported"} =>
          /\ est_args = <<Flatten(fixed_fiducials), Flatten(moving_fiducials)>>
          /\ fixed_fiducials = ideal_fixed_fiducials
          /\ Len(moving_fiducials) = Len(ideal_moving_fiducials)
          /\ Range(Unflatten(est_args[1])) \cap Range(ideal_fixed_targets) = {}
          /\ transform \in
                LandmarkBasedTransformInitializer(est_args[1], est_args[2])
    /\ ex_pc[2] = "reported" =>
          /\ err_args[1] =
                <<transform, Unflatten(est_args[1]), Unflatten(est_args[2])>>
          /\ err_args[2] =
                <<transform, ideal_fixed_targets, ideal_moving_targets>>

C4_Witness ==
    /\ ex_pc = <<"outlier", "reported">>
    /\ moving_fiducials[OutlierIndex] = outlier_fiducial
    /\ moving_fiducials # ideal_moving_fiducials

\* the ideal moving points are an exact rigid image of the fixed points
IdealIsRigidImage ==
    \E T \in RigidTransforms :
        /\ \A i \in DOMAIN ideal_fixed_fiducials :
              ideal_moving_fiducials[i] =
                  TransformPoint(T, ideal_fixed_fiducials[i])
        /\ \A j \in DOMAIN ideal_fixed_targets :
              ideal_moving_targets[j] =
                  TransformPoint(T, ideal_fixed_targets[j])

\* C5: when the ideal moving points are an exact rigid image of the fixed
\* points and the same bias vector is added to every moving fiducial (and
\* to no target), the estimated transform gives FRE = 0 for every fiducial
\* and TRE > 0 for every held-out target.
C5_UniformBiasHidesInFRE ==
    (ex_pc = <<"uniform", "reported">> /\ IdealIsRigidImage)
        => /\ FRE_information.error = "none"
           /\ TRE_information.error = "none"
           /\ Len(FRE_information.tuple[5]) = Len(ideal_fixed_fiducials)
           /\ Len(TRE_information.tuple[5]) = Len(ideal_fixed_targets)
           /\ \A i \in DOMAIN FRE_information.tuple[5] :
                 FRE_information.tuple[5][i] = 0
           /\ \A j \in DOMAIN TRE_information.tuple[5] :
                 TRE_information.tuple[5][j] > 0

C5_Witness ==
    /\ ex_pc = <<"uniform", "reported">>
    /\ IdealIsRigidImage
    /\ transform.rot = 1
    /\ moving_targets = ideal_moving_targets
    /\ moving_fiducials # ideal_moving_fiducials

\* C6: the alternating-bias loop adds +bias_vector to exactly half of the
\* moving fiducials and -bias_vector to the other half whenever the number
\* of fiducials is even, so the added displacements sum to zero and the
\* centroid of the fiducials is unchanged.
C6_AlternatingBiasCancels ==
    (ex_pc[1] = "alternating" /\ Len(moving_fiducials) % 2 = 0)
        => LET N == Len(moving_fiducials)
               added == [i \in 1..N |->
                           VSub(moving_fiducials[i], ideal_moving_fiducials[i])]
           IN  /\ N = Len(ideal_moving_fiducials)
               /\ 2 * Cardinality({i \in 1..N : added[i] = bias_vector}) = N
               /\ 2 * Cardinality({i \in 1..N :
                                     added[i] = VScale(-1, bias_vector)}) = N
               /\ SumSeq([i \in 1..N |-> added[i][1]]) = 0
               /\ SumSeq([i \in 1..N |-> added[i][2]]) = 0

C6_Witness ==
    /\ ex_pc = <<"alternating", "reported">>
    /\ Len(moving_fiducials) = 4
    /\ moving_fiducials[1] = VAdd(ideal_moving_fiducials[1], bias_vector)
    /\ moving_fiducials[2] = VSub(ideal_moving_fiducials[2], bias_vector)

-----------------------------------------------------------------------------
(* Claims about the sphere fit.                                            *)

\* every point lies at squared distance rsq from centre
OnSphere(points, centre, rsq) ==
    \A i \in DOMAIN points : NormSq(VSub(points[i], centre)) = rsq

Det3(u, v, w) ==
    u[1] * (v[2] * w[3] - v[3] * w[2])
      - u[2] * (v[1] * w[3] - v[3] * w[1])
      + u[3] * (v[1] * w[2] - v[2] * w[1])

\* four of the points span space
NonCoplanar(points) ==
    \E i, j, l, m \in DOMAIN points :
        Det3(VSub(points[j], points[i]), VSub(points[l], points[i]),
             VSub(points[m], points[i])) # 0

CentreLattice ==
    {<<x, y, z>> : x \in -MaxCentre..MaxCentre, y \in -MaxCentre..MaxCentre,
                   z \in -MaxCentre..MaxCentre}

\* C7: the system has the row [-2 p_i, 1] and the right-hand side -|p_i|^2
\* for each point; for at least 4 non-coplanar points lying exactly on the
\* sphere of centre c and radius r it is satisfied exactly by
\* [c, |c|^2 - r^2], which is the solution found, and the fit reports the
\* centre c and the radius sqrt(|c|^2 - k) = r.
C7_ExactSphereRecovered ==
    \A centre \in CentreLattice, rsq \in 1..MaxRadiusSq :
        (/\ Len(physical_points) >= 4
         /\ NonCoplanar(physical_points)
         /\ OnSphere(physical_points, centre, rsq))
        => LET exact == centre \o <<NormSq(centre) - rsq>>
           IN  /\ (sf_pc \in {"report", "done"}) =>
                     /\ Len(A) = Len(physical_points)
                     /\ Len(b) = Len(physical_points)
                     /\ \A i \in DOMAIN physical_points :
                           /\ A[i] = <<-2 * physical_points[i][1],
                                       -2 * physical_points[i][2],
                                       -2 * physical_points[i][3], 1>>
                           /\ b[i] = -NormSq(physical_points[i])
                     /\ MatVec(A, exact) = b
                     /\ res = exact
               /\ (sf_pc = "done") =>
                     /\ sf_printed.location = centre
                     /\ ~sf_printed.radius.nan
                     /\ sf_printed.radius.value * sf_printed.radius.value <= rsq
                     /\ rsq < (sf_printed.radius.value + 1)
                                 * (sf_printed.radius.value + 1)

C7_Witness ==
    /\ sf_pc = "done"
    /\ Len(physical_points) = 4
    /\ NonCoplanar(physical_points)
    /\ OnSphere(physical_points, <<1, 0, 0>>, 1)
    /\ sf_printed.location = <<1, 0, 0>>
    /\ sf_printed.radius = [nan |-> FALSE, value |-> 1]

\* C8: when the solution has k >= |c|^2 (squared radius <= 0) the fit
\* signals an invalid result instead of reporting a NaN, zero or negative
\* radius as a valid one.
C8_InvalidRadiusSignalled ==
    (sf_pc = "done" /\ res[4] >= NormSq(SubSeq(res, 1, 3)))
        => sf_printed.flagged

-----------------------------------------------------------------------------
(* Claims about the orientation exploration.                               *)

\* C9: when the metric evaluation of one candidate orientation fails, only
\* that candidate is excluded: the batch is not aborted, and the best
\* orientation is produced from the candidates that were evaluated.
C9_FailedCandidateIsolated ==
    (/\ ini_pc \in {"par_done", "par_raised"}
     /\ \E i \in Tasks : task_pc[i] = "failed"
     /\ \E j \in Tasks : task_pc[j] = "returned")
        => /\ ini_pc = "par_done"
           /\ \E j \in Tasks :
                 /\ task_pc[j] = "returned"
                 /\ best_orientation = orientations_list[j]
                 /\ \A l \in Tasks :
                       task_pc[l] = "returned" => task_res[j] <= task_res[l]

\* C10: during p.map no evaluate_metric call writes state another call or
\* the caller reads: each call has its own copy of the transform and sets
\* the rotation on that copy only, so initial_transform and the images are
\* the same after p.map as before it, whatever the interleaving.
C10_WorkersShareNothing ==
    ini_pc \in {"par_map", "par_done", "par_raised"} =>
        /\ heap[InitialRef] = tx_before
        /\ fixed_image = "ct" /\ moving_image = "mr"
        /\ \A i \in Tasks :
              task_pc[i] # "queued" =>
                 /\ current_transform[i] # InitialRef
                 /\ \A j \in Tasks \ {i} :
                       task_pc[j] # "queued"
                           => current_transform[j] # current_transform[i]
                 /\ heap[current_transform[i]].translation = tx_before.translation
                 /\ task_pc[i] \in {"rotated", "returned", "failed"}
                       => heap[current_transform[i]].rotation = orientations_list[i]

C10_Witness ==
    /\ ini_pc = "par_done"
    /\ tx_before.rotation = <<0, 1, 1>>
    /\ heap[InitialRef] = tx_before
    /\ heap[current_transform[2]].rotation = <<0, 0, 1>>
    /\ heap[current_transform[1]].rotation = <<0, 0, 0>>

-----------------------------------------------------------------------------
(* C11..C20: the exploration results, the exhaustive optimizer, the        *)
(* exploit step and the composition of transforms.                         *)

\* the metric values of the candidates, in list order
MetricsInListOrder == [i \in Tasks |-> metric_of[orientations_list[i]]]

\* C11: whatever the order in which the parallel evaluations ran and
\* returned, all_metric_values[i] is the metric value of orientations_list[i]
\* and best_orientation is the first least entry of the candidates' metric
\* values: it depends on those values only.
C11_ResultsInListOrder ==
    ini_pc \in {"par_done", "registered"}
        => /\ \A i \in Tasks :
                 all_metric_values[i] = metric_of[orientations_list[i]]
           /\ best_orientation = orientations_list[ArgMin(MetricsInListOrder)]

\* the calls returned last to first, the metric values differ, and the
\* result was collected
C11_Witness ==
    /\ ini_pc = "par_done"
    /\ finish_order = <<4, 3, 2, 1>>
    /\ metric_of[orientations_list[1]] > metric_of[orientations_list[2]]
    /\ best_orientation = orientations_list[2]

\* the grid of the exhaustive optimizer around centre, written out:
\* centre[i] + j * stepLength * scale[i], j in -numberOfSteps[i]..numberOfSteps[i]
ParameterGrid(centre, steps, scales) ==
    LET J(i) == (0 - steps[i])..steps[i]
        At(i, j) == centre[i] + (j * stepLength * scales[i]) \div ScaleDen
    IN  {<<At(1, j1), At(2, j2), At(3, j3), At(4, j4), At(5, j5), At(6, j6)>> :
            j1 \in J(1), j2 \in J(2), j3 \in J(3),
            j4 \in J(4), j5 \in J(5), j6 \in J(6)}

\* the grid of the last Execute, around the parameters it began with
ExploredGrid ==
    ParameterGrid(initial_parameters, numberOfSteps, optimizer_scales)

SampledParameters ==
    {metricvalue_parameters_list[n][2] : n \in DOMAIN metricvalue_parameters_list}

\* C12: after the Execute of the exploration, metricvalue_parameters_list
\* holds exactly one (metric value, parameter vector) pair per grid point of
\* initial_parameters[i] + j * stepLength * scale[i]: it has
\* prod_i (2 * numberOfSteps[i] + 1) entries (9 for [0,1,1,0,0,0], 15 for the
\* documented [1,0,2,0,0,0]), each with the metric of its parameters, and
\* the initial parameter vector is among them.
C12_OneSamplePerGridPoint ==
    (eo_pc = <<"explore", "executed">> /\ executions = 1)
        => LET samples == metricvalue_parameters_list
               s == numberOfSteps
           IN  /\ initial_parameters = CenteredTransformInitializer
               /\ SampledParameters = ExploredGrid
               /\ Len(samples) = Cardinality(ExploredGrid)
               /\ Len(samples) = (2 * s[1] + 1) * (2 * s[2] + 1) * (2 * s[3] + 1)
                                  * (2 * s[4] + 1) * (2 * s[5] + 1) * (2 * s[6] + 1)
               /\ \A n \in DOMAIN samples :
                     samples[n][1] = MetricValue(cost_landscape, samples[n][2])
               /\ CenteredTransformInitializer \in SampledParameters
               /\ s = <<0, 1, 1, 0, 0, 0>> => Len(samples) = 9
               /\ s = <<1, 0, 2, 0, 0, 0>> => Len(samples) = 15

\* the documented grid was explored: 15 samples, one of them half a step
\* (a quarter turn) away in angle_z and a whole step away in angle_x
C12_Witness ==
    /\ eo_pc = <<"explore", "executed">>
    /\ executions = 1
    /\ numberOfSteps = <<1, 0, 2, 0, 0, 0>>
    /\ Len(metricvalue_parameters_list) = 15
    /\ <<2, 0, 1, 1, 2, 0>> \in SampledParameters

\* the starts of the refinements of the exploit step (the first
\* registration of the notebook follows the in-place exhaustive search)
ExploitStarts == SubSeq(registration_starts, 2, Len(registration_starts))

\* C13: the exploit step refines exactly k = min(3, n) candidates, the first
\* k of the list sorted by metric value: the list is in non-decreasing
\* metric order, still holds every explored sample, and no sample left
\* unrefined has a strictly lower explored metric value than a refined one.
C13_RefinesTheKLowest ==
    eo_pc[1] = "exploit"
        => LET list == metricvalue_parameters_list
               n == Len(list)
               k == IF n < 3 THEN n ELSE 3
           IN  /\ k_most_promising = k
               /\ \A i, j \in 1..n : i < j => list[i][1] <= list[j][1]
               /\ SampledParameters = ExploredGrid
               /\ Len(ExploitStarts) = Len(final_results)
               /\ Len(ExploitStarts) <= k
               /\ \A i \in DOMAIN ExploitStarts : ExploitStarts[i] = list[i][2]
               /\ eo_pc[2] = "done" => Len(ExploitStarts) = k
               /\ \A i \in 1..k : \A j \in (k + 1)..n : list[j][1] >= list[i][1]

\* nine samples were explored, three refined, a strictly worse one was left
\* out, and the first sample of the walk is not the most promising one
C13_Witness ==
    /\ eo_pc = <<"exploit", "done">>
    /\ Len(metricvalue_parameters_list) = 9
    /\ Len(ExploitStarts) = 3
    /\ metricvalue_parameters_list[3][1] < metricvalue_parameters_list[4][1]
    /\ metricvalue_parameters_list[1][2] # <<0, 0 - 2, 0 - 2, 1, 2, 0>>
    /\ ExploitStarts[2] # ExploitStarts[1]

\* C14: the transform the exploit step returns is a refined result whose
\* final metric value is the least over all k refined candidates; with k
\* equal to the number of candidates it is at least as good as the
\* refinement result of every candidate.
C14_BestRefinedResultReturned ==
    eo_pc = <<"exploit", "done">>
        => LET n == Len(metricvalue_parameters_list)
           IN  /\ \E i \in DOMAIN final_results :
                     /\ final_transform = final_results[i][1]
                     /\ \A j \in DOMAIN final_results :
                           final_results[i][2] <= final_results[j][2]
               /\ k_most_promising = n
                    => \A c \in 1..n :
                          /\ ExploitStarts[c] = metricvalue_parameters_list[c][2]
                          /\ MetricValue(cost_landscape, final_transform)
                                <= final_results[c][2]

\* all three candidates were refined, and the result returned is strictly
\* better than the refinement of the most promising one
C14_Witness ==
    /\ eo_pc = <<"exploit", "done">>
    /\ Len(metricvalue_parameters_list) = 3
    /\ k_most_promising = 3
    /\ final_transform # final_results[1][1]
    /\ MetricValue(cost_landscape, final_transform) < final_results[1][2]

IsLocalMinimum(depths, p) ==
    \A q \in Neighbours(p) : MetricValue(depths, q) >= MetricValue(depths, p)

\* one period of the angles
AnglePeriod ==
    {<<ax, ay, az, 1, 2, 0>> : ax \in 0..(FullTurn - 1), ay \in 0..(FullTurn - 1),
                               az \in 0..(FullTurn - 1)}

GlobalMinimumValue(depths) ==
    CHOOSE v \in {MetricValue(depths, p) : p \in AnglePeriod} :
        \A p \in AnglePeriod : v <= MetricValue(depths, p)

C16_ReturnedTransformImmutable ==
    [][\A r \in {InitialRef, FinalRef} : heap[r].live => heap'[r] = heap[r]]_vars

\* the least metric value over the identity and all_orientations
LeastMetric ==
    CHOOSE v \in Range(MetricsInListOrder) :
        \A u \in Range(MetricsInListOrder) : v <= u

\* C17: when the sequential loop has ended, best_similarity_value is the
\* least metric value over the identity orientation and every entry of
\* all_orientations, and best_orientation is an orientation with that value.
C17_SequentialLoopFindsMinimum ==
    (ini_pc = "seq_loop" /\ next_orientation > Len(all_orientations))
        => /\ best_similarity_value = LeastMetric
           /\ best_orientation \in Range(orientations_list)
           /\ metric_of[best_orientation] = LeastMetric

\* the loop ended and the minimum is not at the identity but at the second
\* entry of all_orientations
C17_Witness ==
    /\ ini_pc = "seq_loop"
    /\ next_orientation > Len(all_orientations)
    /\ best_orientation = all_orientations[2]
    /\ best_similarity_value < metric_of[<<0, 0, 0>>]
    /\ best_similarity_value < metric_of[all_orientations[1]]

\* C18: after the in-place Execute of the exhaustive optimizer the
\* parameters of initial_transform are those of a grid point whose metric
\* value is the least over all grid points, and the registration that
\* follows starts from exactly these parameters.
C18_InPlaceExhaustiveKeepsBest ==
    /\ eo_pc = <<"exhaustive", "executed">>
         => /\ initial_transform \in ExploredGrid
            /\ \A g \in ExploredGrid :
                  MetricValue(cost_landscape, initial_transform)
                      <= MetricValue(cost_landscape, g)
    /\ eo_pc = <<"explore", "setup">>
         => /\ initial_transform \in ExploredGrid
            /\ \A g \in ExploredGrid :
                  MetricValue(cost_landscape, initial_transform)
                      <= MetricValue(cost_landscape, g)
            /\ registration_starts = <<initial_transform>>

\* the best grid point is not the centre of the grid, and the registration
\* started from it
C18_Witness ==
    /\ eo_pc = <<"explore", "setup">>
    /\ initial_transform # CenteredTransformInitializer
    /\ MetricValue(cost_landscape, initial_transform)
           < MetricValue(cost_landscape, CenteredTransformInitializer)
    /\ registration_starts = <<initial_transform>>

\* the notebook's transform variable, as an object
ObjectOf(name) == tx_store[tx_ref[name]]

\* C19: in Version 1.1 the composed final_transform_v11 maps every fixed
\* image point p to T_m(T_opt(p)), T_m being initial_transform and T_opt
\* optimized_transform.
C19_ComposedIsMovingAfterOptimized ==
    intro_pc \in {"v2", "v2_execute", "done"}
        => \A p \in LatticePoints :
              TransformPointOf(ObjectOf("final_transform_v11"), p)
                  = TransformPointOf(ObjectOf("initial_transform"),
                        TransformPointOf(ObjectOf("optimized_transform"), p))

\* C20: in Version 1 Execute leaves initial_transform as
\* CenteredTransformInitializer returned it; the optimized parameters are
\* in the returned final_transform_v1, a different object.
C20_V1LeavesInitialTransform ==
    intro_pc = "v11"
        => /\ ObjectOf("initial_transform") = alignment
           /\ tx_ref["final_transform_v1"] # tx_ref["initial_transform"]
           /\ ObjectOf("final_transform_v1").queue = <<optimizer_result>>

\* Version 1 has run and the optimizer found parameters other than the
\* initial alignment
C20_Witness ==
    /\ intro_pc = "v11"
    /\ alignment.queue # <<optimizer_result>>
    /\ ObjectOf("initial_transform") = alignment
    /\ ObjectOf("final_transform_v1").queue = <<optimizer_result>>
    /\ optimizer_result.rot = 1

-----------------------------------------------------------------------------
(* C21..C25: Version 2 of the R notebook, the exploit loop, the observers, *)
(* the two orientation searches and the rotation of the homework notebook. *)

\* C21: in Version 2 Execute modifies final_transform in place: after the
\* registration final_transform is still an Euler3DTransform and holds the
\* optimized parameters, while initial_transform, of which it was
\* constructed as a copy, is a different object and is unchanged.
C21_V2ModifiesFinalTransformInPlace ==
    intro_pc = "done"
        => /\ ObjectOf("final_transform").type = "Euler3DTransform"
           /\ ObjectOf("final_transform").queue = <<optimizer_result>>
           /\ tx_ref["final_transform"] # tx_ref["initial_transform"]
           /\ ObjectOf("initial_transform") = alignment

\* Version 2 has run and the optimizer found a rotation, which the initial
\* alignment does not have
C21_Witness ==
    /\ intro_pc = "done"
    /\ optimizer_result.rot = 1
    /\ ObjectOf("final_transform").queue = <<optimizer_result>>
    /\ ObjectOf("initial_transform") = alignment
    /\ alignment.queue # <<optimizer_result>>

\* C22: multires_registration does not modify its initial_transform
\* argument, so each refinement of the exploit loop starts from exactly the
\* parameters of its ranked candidate and its result is one that can be
\* reached from them alone, whatever the earlier refinements returned; after
\* each iteration, and after the loop, initial_transform holds the
\* parameters of the candidate refined last.
C22_RefinementsStartFromCandidates ==
    eo_pc[1] = "exploit"
        => LET list == metricvalue_parameters_list
               done == Len(final_results)
           IN  /\ Len(ExploitStarts) = done
               /\ \A i \in 1..done :
                     /\ ExploitStarts[i] = list[i][2]
                     /\ final_results[i] \in
                           multires_registration(cost_landscape, list[i][2])
               /\ done >= 1 => initial_transform = list[done][2]
               /\ eo_pc[2] = "done" =>
                     initial_transform = list[k_most_promising][2]

\* three candidates were refined; the last refinement moved away from its
\* start, which initial_transform still holds, and the second refinement
\* did not start where the first one ended
C22_Witness ==
    /\ eo_pc = <<"exploit", "done">>
    /\ Len(final_results) = 3
    /\ final_results[3][1] # metricvalue_parameters_list[3][2]
    /\ initial_transform = metricvalue_parameters_list[3][2]
    /\ ExploitStarts[2] # final_results[1][1]

\* C23: the start observer runs before the first iteration observer of
\* every Execute and resets the global list: a sample is only ever appended
\* to a list that exists, while an Execute runs the list holds the samples
\* of this run so far and nothing else, and after any number of consecutive
\* Execute calls it holds exactly the samples of the most recent one.
C23_OnlyLatestRunSampled ==
    LET list == metricvalue_parameters_list
        Sample(n) ==
            LET position == WalkPosition(initial_parameters, numberOfSteps,
                                         optimizer_scales, n - 1)
            IN  <<MetricValue(cost_landscape, position), position>>
    IN  /\ eo_pc[2] # "raised"
        /\ (eo_pc[2] \in {"walking", "executed"}
                /\ "sitkIterationEvent" \in observers)
             => /\ list_defined
                /\ Len(list) = iteration
                /\ \A n \in DOMAIN list : list[n] = Sample(n)
        /\ eo_pc = <<"explore", "executed">>
             => /\ Len(list) = NumberOfGridPoints(numberOfSteps)
                /\ SampledParameters = ExploredGrid

\* Execute ran twice, the second time around other parameters than the
\* first, and a grid point of the first run is no longer in the list
C23_Witness ==
    /\ eo_pc = <<"explore", "executed">>
    /\ executions = 2
    /\ initial_parameters # CenteredTransformInitializer
    /\ Len(metricvalue_parameters_list) = 9
    /\ \E g \in ParameterGrid(CenteredTransformInitializer, numberOfSteps,
                              optimizer_scales) : g \notin SampledParameters

\* C24: with the same metric value for each orientation the ThreadPool and
\* argmin select the best_orientation the sequential loop selected, ties for
\* the minimum included: the assignment of the parallel cell leaves
\* best_orientation as the loop left it, and that is the first orientation
\* with the least value in the order identity, then all_orientations.
C24_LoopAndPoolSelectTheSame ==
    [][(ini_pc = "par_map" /\ ini_pc' = "par_done")
          => /\ best_orientation' = best_orientation
             /\ best_orientation' = orientations_list[ArgMin(MetricsInListOrder)]
             /\ \A i \in Tasks :
                   metric_of[orientations_list[i]] = metric_of[best_orientation']
                       => ArgMin(MetricsInListOrder) <= i]_vars

\* both cells have run, three orientations tie for the minimum and the
\* first of them, which is not the identity, is selected
C24_Witness ==
    /\ ini_pc = "par_done"
    /\ metric_of[orientations_list[1]] > metric_of[orientations_list[2]]
    /\ metric_of[orientations_list[3]] = metric_of[orientations_list[2]]
    /\ metric_of[orientations_list[4]] = metric_of[orientations_list[2]]
    /\ best_orientation = orientations_list[2]
    /\ best_similarity_value = metric_of[orientations_list[2]]

\* the points the transform is applied to: the voxels of the image and a
\* margin around them
PointsAround(image) ==
    {VAdd(q, <<dx, dy, dz>>) : q \in VoxelPoints(image),
                               dx \in -1..1, dy \in -1..1, dz \in -1..1}

\* C25: the rotation by 180 degrees about the image centre is its own
\* inverse, so that replacing every moving fiducial by its image under the
\* transform the image was resampled with leaves it on the anatomy it
\* marked: the rotated image has at the new point the value the image read
\* had at the point loaded.  The list keeps its length, and its i-th entry
\* is the image of the i-th point loaded.
C25_HalfTurnKeepsFiducialsOnAnatomy ==
    LET T(p) == EulerTransformPoint(transform_moving, p)
        replaced == IF hw_pc = "done" /\ rotate
                    THEN Len(ground_truth_file) ELSE fiducial_index
    IN  /\ Len(moving_fiducial_points) = Len(ground_truth_file)
        /\ hw_pc \in {"transform", "loop", "done"}
             => \A p \in PointsAround(mr_file) : T(T(p)) = p
        /\ hw_pc \in {"loop", "done"} /\ rotate
             => \A i \in DOMAIN ground_truth_file :
                   IF i <= replaced
                   THEN /\ moving_fiducial_points[i] = T(ground_truth_file[i])
                        /\ PixelAt(hw_moving_image, moving_fiducial_points[i])
                              = PixelAt(mr_file, ground_truth_file[i])
                        /\ PixelAt(hw_moving_image, moving_fiducial_points[i])
                              # DefaultPixelValue
                   ELSE moving_fiducial_points[i] = ground_truth_file[i]

\* the block has run on two different fiducials, both moved, and the image
\* is no longer the one read
C25_Witness ==
    /\ hw_pc = "done"
    /\ rotate
    /\ Len(ground_truth_file) = 2
    /\ ground_truth_file[1] # ground_truth_file[2]
    /\ moving_fiducial_points[1] # ground_truth_file[1]
    /\ moving_fiducial_points[2] # ground_truth_file[2]
    /\ hw_moving_image # mr_file
    /\ \E i \in 1..3 : rotation_center[i] % 2 = 1

=============================================================================
